---- MODULE Spec2Model ----
(***************************************************************************)
(* Framed binary transport protocol of the Synth-Head GPU driver test      *)
(* stack: the short form (UartPacket, run_extended_tests.py) and the       *)
(* extended form (PacketHeader / PacketFooter / build_packet and the       *)
(* fragment builders, run_hardware_tests_v2.py).                           *)
(*                                                                         *)
(* Bytes are integers 0..255, byte strings are sequences of bytes.         *)
(* Python's 0-based half-open slices s[a:b] are written Slice(s, a, b).    *)
(***************************************************************************)
EXTENDS Integers, Sequences, FiniteSets, TLC

VARIABLES
    \* ---- short form: one encode / transmit / decode exchange
    spc,        \* position of the exchange: "input", "encoded", "rejected", "onwire", "decoded"
    sCmd,       \* cmd argument of UartPacket.encode
    sPayload,   \* payload argument of UartPacket.encode
    sPacket,    \* what UartPacket.encode returned or raised
    sFault,     \* what the link did to the packet
    sData,      \* the bytes handed to UartPacket.decode
    sResult,    \* what UartPacket.decode returned or raised
    \* ---- extended form: one build_packet call and the unpacking of its result
    xpc,        \* "idle", "input", "built"
    xMsgType,   \* msg_type argument of build_packet
    xPayload,   \* payload argument of build_packet
    xFrameNum,  \* frame_num argument of build_packet
    xFragIndex, \* frag_index argument of build_packet
    xFragTotal, \* frag_total argument of build_packet
    xPacket,    \* the bytes build_packet returned
    xHeader,    \* what PacketHeader.unpack(packet[:PacketHeader.SIZE]) returned or raised
    xFooter,    \* what PacketFooter.unpack(packet[-PacketFooter.SIZE:]) returned or raised
    \* ---- extended form: one SerialInterface.receive_packet call
    rpc,        \* "idle", "ready", "done"
    rConnected, \* SerialInterface.connected
    rStream,    \* the bytes the serial port delivers to this call, in order
    rSent,      \* the packet the peer put on the stream (after the stray bytes)
    rResult,    \* what receive_packet returned or raised
    rRest,      \* the bytes the call left unread
    \* ---- extended form: one call of a fragment builder
    fpc,        \* "idle", "input", "built"
    fTarget,    \* "hub75": build_hub75_fragment_packets, "oled": build_oled_fragment_packets,
                \* "hub75_frame": build_hub75_frame_packet
    fFrame,     \* rgb_data / mono_data argument
    fFrameNum,  \* frame_num argument
    fPackets,   \* the list of packets returned, or the error raised
    \* ---- short form: a sequence of send_packet calls on one UartSimulator and one
    \* ---- SerialInterface (run_hardware_tests.py)
    uart,       \* the UartSimulator: tx_buffer, bytes_sent, packets_sent, packets_dropped,
                \* error_rate and drop_rate ("zero" or "positive")
    wConnected, \* SerialInterface.connected
    wWritten,   \* the bytes handed to SerialInterface.ser.write so far, in order
    uCalls,     \* number of send_packet calls made so far
    uLast,      \* the last call: its sink, cmd, payload, what it returned, the error raised
    \* ---- short form: two producers, each in one send_packet call on the same sink
    prod,       \* per producer: position in send_packet (pc), the sink, the arguments, the
                \* encoded packet, the drawn noise, the loop index i, the value returned
    cOwners,    \* for each byte on the sink, in order, the producer that put it there
    \* ---- both forms: receive_packet calls on one SerialInterface, statement by
    \* ---- statement, with the clock and the bytes arriving at the port
    lForm,      \* "short": run_hardware_tests.py, "ext": run_hardware_tests_v2.py
    lConnected, \* SerialInterface.connected
    lTimeout,   \* the timeout argument of the calls, in clock ticks
    now,        \* time.time(), in clock ticks
    lStream,    \* every byte the peer sends, in order
    lPending,   \* the bytes of lStream that have not reached the port yet (they arrive
                \* together, or never)
    lIn,        \* the bytes waiting in the port, unread
    lpc,        \* "idle" between calls, "test" at the loop condition, "read1", "read2",
                \* "read3" at the reads of the sync loop, "header", "payload", "footer" at
                \* the reads after it
    lStart,     \* start_time
    lDeadline,  \* the time at which the read in progress gives up
    lHdr,       \* header (short form) / header_data (extended form)
    lPayload,   \* payload (extended form)
    lCalls,     \* number of receive_packet calls begun
    lResult,    \* what the last call returned or raised
    lWhy,       \* the statement that ended the last call
    lLog,       \* for each call that is over, in call order: what it returned or raised,
                \* the statement that ended it, the bytes that had not arrived by then
    \* ---- extended form: one run of test_gpu_ping_pong
    gpc,        \* "idle", "ready", "done"
    gConnected, \* runner.gpu.connected
    gTimestamp, \* the timestamp put into the PING
    gWriteOk,   \* whether self.ser.write and self.ser.flush go through
    gResponses, \* the packets the GPU answers with, in order
    gWritten,   \* the bytes written to the port
    gOutcome,   \* what test_gpu_ping_pong returned or raised
    \* ---- extended form: the fragments of one frame handed to the receiver's
    \* ---- reassembler
    mTarget,    \* the display the frame is for: "hub75" or "oled"
    mFed,       \* the list positions of the fragments handed over at least once
    mDup,       \* whether a fragment has been handed over more than once
    mAsm,       \* the reassembler: state, frame number, fragment total, received markers
                \* and the payload kept for each received index
    mOut,       \* what the last Reassembler.accept returned
    mCompleted, \* number of completed frames returned so far
    \* ---- short form: send_packet and receive calls on one UartSimulator, one after
    \* ---- the other
    zLog,       \* the calls made so far, in order: the method, its arguments, the draw
                \* of the drop test, what it returned
    \* ---- GPU simulator: GpuSimulator.execute and direct FrameBuffer calls
    gpu,        \* the GpuSimulator object: fb, current_color, blend_mode, clip_*, commands_executed
    xLog,       \* the calls made so far, in order: the method, and the cmd of an execute
    xLast,      \* the call made last: the method, its arguments, its return value
    \* ---- a consumer calling UartSimulator.receive while a producer is in send_packet
    kpc,        \* position of the consumer: "idle", or "copied" after data = bytes(self.tx_buffer)
    kData,      \* the consumer's local data
    kResults,   \* what the receive calls returned so far, in order
    kCalls      \* number of receive calls begun so far

shortVars == <<spc, sCmd, sPayload, sPacket, sFault, sData, sResult>>
extVars == <<xpc, xMsgType, xPayload, xFrameNum, xFragIndex, xFragTotal, xPacket, xHeader, xFooter>>
recvVars == <<rpc, rConnected, rStream, rSent, rResult, rRest>>
fragVars == <<fpc, fTarget, fFrame, fFrameNum, fPackets>>
sendVars == <<uart, wConnected, wWritten, uCalls, uLast>>
concVars == <<prod, cOwners>>
linkVars == <<lForm, lConnected, lTimeout, now, lStream, lPending, lIn, lpc, lStart, lDeadline,
              lHdr, lPayload, lCalls, lResult, lWhy, lLog>>
pingVars == <<gpc, gConnected, gTimestamp, gWriteOk, gResponses, gWritten, gOutcome>>
reasmVars == <<mTarget, mFed, mDup, mAsm, mOut, mCompleted>>
simVars == <<zLog>>
gpuVars == <<gpu, xLog, xLast>>
pipeVars == <<kpc, kData, kResults, kCalls>>
vars == <<shortVars, extVars, recvVars, fragVars, sendVars, concVars, linkVars, pingVars, reasmVars, simVars, gpuVars, pipeVars>>

\* What each part of the model leaves alone
notShort == <<extVars, recvVars, fragVars, sendVars, concVars, linkVars, pingVars, reasmVars, simVars, gpuVars, pipeVars>>
notExt == <<shortVars, recvVars, fragVars, sendVars, concVars, linkVars, pingVars, reasmVars, simVars, gpuVars, pipeVars>>
notRecv == <<shortVars, extVars, fragVars, sendVars, concVars, linkVars, pingVars, reasmVars, simVars, gpuVars, pipeVars>>
notFrag == <<shortVars, extVars, recvVars, sendVars, concVars, linkVars, pingVars, reasmVars, simVars, gpuVars, pipeVars>>
notSend == <<shortVars, extVars, recvVars, fragVars, concVars, linkVars, pingVars, reasmVars, simVars, gpuVars, pipeVars>>
notConc == <<shortVars, extVars, recvVars, fragVars, uCalls, uLast, linkVars, pingVars, reasmVars, simVars, gpuVars, pipeVars>>
notLink == <<shortVars, extVars, recvVars, fragVars, sendVars, concVars, pingVars, reasmVars, simVars, gpuVars, pipeVars>>
notPing == <<shortVars, extVars, recvVars, fragVars, sendVars, concVars, linkVars, reasmVars, simVars, gpuVars, pipeVars>>
notReasm == <<shortVars, extVars, recvVars, fragVars, sendVars, concVars, linkVars, pingVars, simVars, gpuVars, pipeVars>>
notSim == <<shortVars, extVars, recvVars, fragVars, wConnected, wWritten, uCalls, uLast, concVars, linkVars,
           pingVars, reasmVars, gpuVars, pipeVars>>
notGpu == <<shortVars, extVars, recvVars, fragVars, sendVars, concVars, linkVars, pingVars, reasmVars, simVars, pipeVars>>
notPipe == <<shortVars, extVars, recvVars, fragVars, wConnected, wWritten, uCalls, uLast, prod, cOwners,
            linkVars, pingVars, reasmVars, simVars, gpuVars>>

----------------------------------------------------------------------------
\* Bounds of the model
MaxLen == 3             \* longest enumerated short-form payload; longer ones are fills
MaxExtLen == 2          \* longest enumerated extended-form payload; longer ones are fills
MaxStray == 2           \* most stray bytes in front of a packet on the serial stream
MaxSlope == 3           \* steepest ramp among the enumerated frames
MaxSends == 2           \* most send_packet calls in one run
MaxCalls == 2           \* most receive_packet calls in one run
MaxResponses == 2       \* most packets the GPU sends in answer to one PING

\* Byte values the enumerated payloads and the tampered bytes are drawn from
ByteSamples == {0, 16, 170, 255}
\* Opcode.NOP, Opcode.SET_PIXEL, Opcode.CLEAR, Opcode.RESET
CmdSamples == {0, 1, 16, 255}

----------------------------------------------------------------------------
\* Generic helpers

Min(a, b) == IF a < b THEN a ELSE b

\* Python s[a:b] for 0 <= a, 0 <= b (clipped to the end of s)
Slice(s, a, b) ==
    LET hi == Min(b, Len(s))
    IN  IF a >= hi THEN <<>> ELSE SubSeq(s, a + 1, hi)

\* bytes([v] * n)
Fill(n, v) == [i \in 1..n |-> v]

\* All sequences over S of length 0..n
RECURSIVE SeqsUpTo(_, _)
SeqsUpTo(S, n) ==
    IF n = 0 THEN {<<>>}
    ELSE LET shorter == SeqsUpTo(S, n - 1)
         IN  shorter \cup {Append(s, b) : s \in {t \in shorter : Len(t) = n - 1}, b \in S}

\* Python's ^ on two 4-bit values, bit by bit
Bit(a, k) == (a \div (2 ^ k)) % 2
XorBit(a, b, k) == (Bit(a, k) + Bit(b, k)) % 2
Xor4(a, b) ==
    XorBit(a, b, 0) + (2 * XorBit(a, b, 1)) + (4 * XorBit(a, b, 2)) + (8 * XorBit(a, b, 3))

Xor4Table == [a \in 0..15 |-> [b \in 0..15 |-> Xor4(a, b)]]

\* Python's ^ on two bytes
Xor(a, b) == (16 * Xor4Table[a \div 16][b \div 16]) + Xor4Table[a % 16][b % 16]

\* byte ^ (1 << bit)
FlipBit(byte, bit) == Xor(byte, 2 ^ bit)

\* s with the byte at 0-based offset pos replaced by v
SetByte(s, pos, v) == [s EXCEPT ![pos + 1] = v]

----------------------------------------------------------------------------
\* Short form: UartPacket

MAGIC == <<170, 85>>
MAX_PAYLOAD == 255

\* b[lo] ^ ... ^ b[hi] (1-based, 0 when empty). The loops of the source fold from
\* the left; ^ is associative, so the halves are folded separately to keep the
\* evaluation shallow on long payloads.
RECURSIVE XorRange(_, _, _)
XorRange(b, lo, hi) ==
    IF lo > hi THEN 0
    ELSE IF lo = hi THEN b[lo]
    ELSE LET mid == (lo + hi) \div 2
         IN  Xor(XorRange(b, lo, mid), XorRange(b, mid + 1, hi))

\* crc = cmd ^ length; for b in payload: crc ^= b; crc & 0xFF
ShortCrc(cmd, length, payload) ==
    Xor(Xor(cmd, length), XorRange(payload, 1, Len(payload))) % 256

Raised(msg) == [ok |-> FALSE, err |-> msg, bytes |-> <<>>, cmd |-> 0, payload |-> <<>>]
Bytes(b) == [ok |-> TRUE, err |-> "", bytes |-> b, cmd |-> 0, payload |-> <<>>]
Decoded(c, p) == [ok |-> TRUE, err |-> "", bytes |-> <<>>, cmd |-> c, payload |-> p]
NoValue == [ok |-> FALSE, err |-> "unset", bytes |-> <<>>, cmd |-> 0, payload |-> <<>>]

\* Mutant of UartPacket_encode: the header carries the length before the command
Mut_encode_swapped_header(cmd, payload) ==
    IF Len(payload) > MAX_PAYLOAD THEN Raised("Payload too large")
    ELSE LET header == MAGIC \o <<Len(payload), cmd>>
             crc == ShortCrc(cmd, Len(payload), payload)
         IN  Bytes(header \o payload \o <<crc % 256>>)

\* Mutant of UartPacket_encode: a payload of MAX_PAYLOAD bytes is refused too
Mut_encode_limit_exclusive(cmd, payload) ==
    IF Len(payload) >= MAX_PAYLOAD THEN Raised("Payload too large")
    ELSE LET header == MAGIC \o <<cmd, Len(payload)>>
             crc == ShortCrc(cmd, Len(payload), payload)
         IN  Bytes(header \o payload \o <<crc % 256>>)

UartPacket_encode(cmd, payload) ==
    IF Len(payload) > MAX_PAYLOAD THEN Raised("Payload too large")
    ELSE LET header == MAGIC \o <<cmd, Len(payload)>>
             crc == ShortCrc(cmd, Len(payload), payload)
         IN  Bytes(header \o payload \o <<crc % 256>>)

\* Mutant of UartPacket_decode: the expected checksum leaves the length out
Mut_decode_crc_without_length(data) ==
    IF Len(data) < 5 THEN Raised("Packet too short")
    ELSE IF Slice(data, 0, 2) # MAGIC THEN Raised("Invalid magic")
    ELSE LET cmd == data[3]
             length == data[4]
         IN  IF Len(data) < 4 + length + 1 THEN Raised("Incomplete packet")
             ELSE LET payload == Slice(data, 4, 4 + length)
                      received_crc == data[4 + length + 1]
                      expected_crc == ShortCrc(cmd, 0, payload)
                  IN  IF received_crc # expected_crc THEN Raised("CRC mismatch")
                      ELSE Decoded(cmd, payload)

\* Mutant of UartPacket_decode: the checksum comparison is missing
Mut_decode_no_crc_check(data) ==
    IF Len(data) < 5 THEN Raised("Packet too short")
    ELSE IF Slice(data, 0, 2) # MAGIC THEN Raised("Invalid magic")
    ELSE LET cmd == data[3]
             length == data[4]
         IN  IF Len(data) < 4 + length + 1 THEN Raised("Incomplete packet")
             ELSE Decoded(cmd, Slice(data, 4, 4 + length))

\* Mutant of UartPacket_decode: only the first magic byte is compared
Mut_decode_half_magic(data) ==
    IF Len(data) < 5 THEN Raised("Packet too short")
    ELSE IF Slice(data, 0, 1) # Slice(MAGIC, 0, 1) THEN Raised("Invalid magic")
    ELSE LET cmd == data[3]
             length == data[4]
         IN  IF Len(data) < 4 + length + 1 THEN Raised("Incomplete packet")
             ELSE LET payload == Slice(data, 4, 4 + length)
                      received_crc == data[4 + length + 1]
                      expected_crc == ShortCrc(cmd, length, payload)
                  IN  IF received_crc # expected_crc THEN Raised("CRC mismatch")
                      ELSE Decoded(cmd, payload)

\* Mutant of UartPacket_decode: the magic comparison is missing
Mut_decode_no_magic_check(data) ==
    IF Len(data) < 5 THEN Raised("Packet too short")
    ELSE LET cmd == data[3]
             length == data[4]
         IN  IF Len(data) < 4 + length + 1 THEN Raised("Incomplete packet")
             ELSE LET payload == Slice(data, 4, 4 + length)
                      received_crc == data[4 + length + 1]
                      expected_crc == ShortCrc(cmd, length, payload)
                  IN  IF received_crc # expected_crc THEN Raised("CRC mismatch")
                      ELSE Decoded(cmd, payload)

\* Mutant of UartPacket_decode: the shortest buffer accepted is the 4-byte header
Mut_decode_min_len_header(data) ==
    IF Len(data) < 4 THEN Raised("Packet too short")
    ELSE IF Slice(data, 0, 2) # MAGIC THEN Raised("Invalid magic")
    ELSE LET cmd == data[3]
             length == data[4]
         IN  IF Len(data) < 4 + length + 1 THEN Raised("Incomplete packet")
             ELSE LET payload == Slice(data, 4, 4 + length)
                      received_crc == data[4 + length + 1]
                      expected_crc == ShortCrc(cmd, length, payload)
                  IN  IF received_crc # expected_crc THEN Raised("CRC mismatch")
                      ELSE Decoded(cmd, payload)

UartPacket_decode(data) ==
    IF Len(data) < 5 THEN Raised("Packet too short")
    ELSE IF Slice(data, 0, 2) # MAGIC THEN Raised("Invalid magic")
    ELSE LET cmd == data[3]
             length == data[4]
         IN  IF Len(data) < 4 + length + 1 THEN Raised("Incomplete packet")
             ELSE LET payload == Slice(data, 4, 4 + length)
                      received_crc == data[4 + length + 1]
                      expected_crc == ShortCrc(cmd, length, payload)
                  IN  IF received_crc # expected_crc THEN Raised("CRC mismatch")
                      ELSE Decoded(cmd, payload)

----------------------------------------------------------------------------
\* Short form senders: UartSimulator.send_packet (run_extended_tests.py) and
\* SerialInterface.send_packet (run_hardware_tests.py)

\* UartSimulator.__init__; the rates are kept as "zero" or "positive"
UartSimulator(error_rate, drop_rate) ==
    [tx_buffer |-> <<>>, error_rate |-> error_rate, drop_rate |-> drop_rate,
     bytes_sent |-> 0, packets_sent |-> 0, packets_dropped |-> 0]

\* What a send_packet call gave back: the value returned ("True", "False") or
\* "raised" with the message of the error that left the call; err also keeps the
\* message of an error the call caught
SendOutcome(state, ret, err) == [state |-> state, ret |-> ret, err |-> err]

\* The packet after the noise loop. noise is <<>> when no draw fell below
\* error_rate, and <<pos, bit>> when the draw for the byte at 0-based offset pos did:
\* byte ^= (1 << bit)
Noisy(packet, noise) ==
    IF noise = <<>> THEN packet
    ELSE SetByte(packet, noise[1], FlipBit(packet[noise[1] + 1], noise[2]))

\* Mutant of UartSimulator_send_packet: the byte loop runs before the drop test, so
\* a dropped packet has already reached tx_buffer
Mut_send_drops_after_append(self, cmd, payload, drop, noise) ==
    LET packet == UartPacket_encode(cmd, payload)
    IN  IF ~packet.ok THEN [state |-> self, ret |-> "raised", err |-> packet.err]
        ELSE IF drop
             THEN [state |-> [self EXCEPT !.tx_buffer = @ \o packet.bytes,
                                          !.packets_dropped = @ + 1],
                   ret |-> "False", err |-> ""]
        ELSE [state |-> [self EXCEPT !.tx_buffer = @ \o packet.bytes,
                                     !.bytes_sent = @ + Len(packet.bytes),
                                     !.packets_sent = @ + 1],
              ret |-> "True", err |-> ""]

\* UartSimulator.send_packet. drop: random.random() < self.drop_rate; noise: the
\* outcome of the draws of the byte loop
UartSimulator_send_packet(self, cmd, payload, drop, noise) ==
    LET packet == UartPacket_encode(cmd, payload)
    IN  IF ~packet.ok THEN SendOutcome(self, "raised", packet.err)
        ELSE IF drop
             THEN SendOutcome([self EXCEPT !.packets_dropped = @ + 1], "False", "")
        ELSE SendOutcome([self EXCEPT !.tx_buffer = @ \o Noisy(packet.bytes, noise),
                                      !.bytes_sent = @ + Len(packet.bytes),
                                      !.packets_sent = @ + 1], "True", "")

\* Mutant of UartSimulator_receive: the buffer is not cleared
Mut_receive_keeps_buffer(self) == [state |-> self, data |-> self.tx_buffer]

\* UartSimulator.receive: data = bytes(self.tx_buffer); self.tx_buffer.clear()
UartSimulator_receive(self) == [state |-> [self EXCEPT !.tx_buffer = <<>>], data |-> self.tx_buffer]

\* SerialInterface.send_packet of run_hardware_tests.py; state is the byte sequence
\* handed to ser.write so far. The try block catches the error of encode.
SerialInterface_send_packet(connected, written, cmd, payload) ==
    IF ~connected THEN SendOutcome(written, "False", "")
    ELSE LET packet == UartPacket_encode(cmd, payload)
         IN  IF ~packet.ok THEN SendOutcome(written, "False", packet.err)
             ELSE SendOutcome(written \o packet.bytes, "True", "")

----------------------------------------------------------------------------
\* Extended form: PacketHeader, PacketFooter, calc_checksum, build_packet

SYNC_BYTE_1 == 170
SYNC_BYTE_2 == 85
SYNC_BYTE_3 == 204
END_BYTE == 85

\* MsgType
PING == 1
PONG == 2
HUB75_FRAME == 16
HUB75_FRAG == 17
OLED_FRAME == 18
OLED_FRAG == 19
STATS_RESPONSE == 49

PacketHeader_SIZE == 10
PacketFooter_SIZE == 3

\* struct format strings as the byte widths of their fields (little-endian, no
\* padding): B is 1 byte, H is 2, I is 4
\* Mutant of HeaderFormat: msg_type is packed as one byte ('<BBBBHHBB'), so that the
\* packed header has PacketHeader.SIZE bytes
Mut_header_format_msg_type_byte == <<1, 1, 1, 1, 2, 2, 1, 1>>

HeaderFormat == <<1, 1, 1, 2, 2, 2, 1, 1>>      \* '<BBBHHHBB'
FooterFormat == <<2, 1>>                        \* '<HB'
TimestampFormat == <<4>>                        \* '<I'

RECURSIVE SumRange(_, _, _)
\* b[lo] + ... + b[hi] (1-based, 0 when empty); + is associative, so the halves are
\* summed separately to keep the evaluation shallow on long byte strings
SumRange(b, lo, hi) ==
    IF lo > hi THEN 0
    ELSE IF lo = hi THEN b[lo]
    ELSE LET mid == (lo + hi) \div 2
         IN  SumRange(b, lo, mid) + SumRange(b, mid + 1, hi)

\* struct.calcsize(fmt)
StructCalcsize(fmt) == SumRange(fmt, 1, Len(fmt))

\* The little-endian bytes of v in w bytes
RECURSIVE PackLE(_, _)
PackLE(v, w) == IF w = 0 THEN <<>> ELSE <<v % 256>> \o PackLE(v \div 256, w - 1)

\* The value of little-endian bytes
RECURSIVE UnpackLE(_)
UnpackLE(b) == IF Len(b) = 0 THEN 0 ELSE b[1] + (256 * UnpackLE(Tail(b)))

\* struct.pack(fmt, *values), for values that fit their fields
RECURSIVE StructPack(_, _)
StructPack(fmt, values) ==
    IF Len(fmt) = 0 THEN <<>>
    ELSE PackLE(values[1], fmt[1]) \o StructPack(Tail(fmt), Tail(values))

\* The fields of data read field by field
RECURSIVE StructFields(_, _)
StructFields(fmt, data) ==
    IF Len(fmt) = 0 THEN <<>>
    ELSE <<UnpackLE(Slice(data, 0, fmt[1]))>>
             \o StructFields(Tail(fmt), Slice(data, fmt[1], Len(data)))

\* struct.unpack(fmt, data): raises struct.error unless len(data) == calcsize(fmt)
StructUnpack(fmt, data) ==
    IF Len(data) # StructCalcsize(fmt)
    THEN [ok |-> FALSE, err |-> "struct.error", values |-> <<>>]
    ELSE [ok |-> TRUE, err |-> "", values |-> StructFields(fmt, data)]

\* PacketHeader(msg_type, payload_len, frame_num, frag_index, frag_total)
PacketHeader(msg_type, payload_len, frame_num, frag_index, frag_total) ==
    [ok |-> TRUE, err |-> "",
     sync1 |-> SYNC_BYTE_1, sync2 |-> SYNC_BYTE_2, sync3 |-> SYNC_BYTE_3,
     msg_type |-> msg_type, payload_len |-> payload_len, frame_num |-> frame_num,
     frag_index |-> frag_index, frag_total |-> frag_total]

HeaderRaised(msg) ==
    [ok |-> FALSE, err |-> msg, sync1 |-> 0, sync2 |-> 0, sync3 |-> 0,
     msg_type |-> 0, payload_len |-> 0, frame_num |-> 0, frag_index |-> 0, frag_total |-> 0]

HeaderNotRun == HeaderRaised("unset")

\* Mutant of PacketHeader_pack: the frame number is written big-endian
Mut_pack_frame_num_big_endian(h) ==
    StructPack(<<1, 1, 1, 2, 2, 1, 1, 1, 1>>,
               <<h.sync1, h.sync2, h.sync3, h.msg_type, h.payload_len,
                 h.frame_num \div 256, h.frame_num % 256, h.frag_index, h.frag_total>>)

\* PacketHeader.pack
PacketHeader_pack(h) ==
    StructPack(HeaderFormat,
               <<h.sync1, h.sync2, h.sync3, h.msg_type, h.payload_len, h.frame_num,
                 h.frag_index, h.frag_total>>)

\* PacketHeader.unpack
PacketHeader_unpack(data) ==
    IF Len(data) < PacketHeader_SIZE THEN HeaderRaised("Not enough data for header")
    ELSE LET u == StructUnpack(HeaderFormat, Slice(data, 0, 10))
         IN  IF ~u.ok THEN HeaderRaised(u.err)
             ELSE [PacketHeader(u.values[4], u.values[5], u.values[6], u.values[7], u.values[8])
                       EXCEPT !.sync1 = u.values[1], !.sync2 = u.values[2], !.sync3 = u.values[3]]

\* PacketFooter(checksum)
PacketFooter(checksum) == [ok |-> TRUE, err |-> "", checksum |-> checksum, end_byte |-> END_BYTE]

FooterRaised(msg) == [ok |-> FALSE, err |-> msg, checksum |-> 0, end_byte |-> 0]

FooterNotRun == FooterRaised("unset")

\* PacketFooter.pack
PacketFooter_pack(f) == StructPack(FooterFormat, <<f.checksum, f.end_byte>>)

\* PacketFooter.unpack
PacketFooter_unpack(data) ==
    IF Len(data) < PacketFooter_SIZE THEN FooterRaised("Not enough data for footer")
    ELSE LET u == StructUnpack(FooterFormat, Slice(data, 0, 3))
         IN  IF ~u.ok THEN FooterRaised(u.err)
             ELSE [PacketFooter(u.values[1]) EXCEPT !.end_byte = u.values[2]]

\* Mutant of calc_checksum: the sum is masked to 8 bits
Mut_calc_checksum_8bit(data) == SumRange(data, 1, Len(data)) % 256

\* calc_checksum: total = 0; for b in data: total += b; total & 0xFFFF
calc_checksum(data) == SumRange(data, 1, Len(data)) % 65536

\* build_packet
build_packet(msg_type, payload, frame_num, frag_index, frag_total) ==
    LET header == PacketHeader(msg_type, Len(payload), frame_num, frag_index, frag_total)
        header_bytes == PacketHeader_pack(header)
        checksum == calc_checksum(header_bytes) + calc_checksum(payload)
        footer == PacketFooter(checksum % 65536)
    IN  header_bytes \o payload \o PacketFooter_pack(footer)

\* struct.pack('<I', timestamp_us), the payload of build_ping_packet
PingPayload(timestamp_us) == StructPack(TimestampFormat, <<timestamp_us>>)

----------------------------------------------------------------------------
\* Extended form: SerialInterface.receive_packet

ReturnedNone ==
    [kind |-> "None", err |-> "", header |-> HeaderNotRun, payload |-> <<>>, footer |-> FooterNotRun]
ReturnedPacket(h, p, f) ==
    [kind |-> "packet", err |-> "", header |-> h, payload |-> p, footer |-> f]
ReceiveRaised(msg) ==
    [kind |-> "raised", err |-> msg, header |-> HeaderNotRun, payload |-> <<>>, footer |-> FooterNotRun]
ReceiveNotRun ==
    [kind |-> "unset", err |-> "", header |-> HeaderNotRun, payload |-> <<>>, footer |-> FooterNotRun]

\* The sync search of receive_packet on the bytes s, the next unread byte being
\* s[i]: the number of bytes consumed when AA 55 CC has been read, or -1 when the
\* stream runs dry first (every further read times out, and so does the loop). A
\* byte read as byte2 or byte3 that does not match is consumed: the next pass of
\* the loop reads a fresh byte1.
RECURSIVE SeekSync(_, _)
SeekSync(s, i) ==
    IF i > Len(s) THEN -1
    ELSE IF s[i] # SYNC_BYTE_1 THEN SeekSync(s, i + 1)
    ELSE IF i + 1 > Len(s) THEN -1
    ELSE IF s[i + 1] # SYNC_BYTE_2 THEN SeekSync(s, i + 2)
    ELSE IF i + 2 > Len(s) THEN -1
    ELSE IF s[i + 2] # SYNC_BYTE_3 THEN SeekSync(s, i + 3)
    ELSE i + 2

\* receive_packet on a port that delivers the bytes s and then nothing more:
\* the result and the number of bytes read
receive_packet(connected, s) ==
    IF ~connected THEN [result |-> ReturnedNone, read |-> 0]
    ELSE LET synced == SeekSync(s, 1)
         IN  IF synced < 0 THEN [result |-> ReturnedNone, read |-> Len(s)]
             ELSE
             LET remaining_header == Slice(s, synced, synced + (PacketHeader_SIZE - 3))
                 afterHeader == synced + Len(remaining_header)
             IN  IF Len(remaining_header) < PacketHeader_SIZE - 3
                 THEN [result |-> ReturnedNone, read |-> afterHeader]
                 ELSE
                 LET header_data == <<SYNC_BYTE_1, SYNC_BYTE_2, SYNC_BYTE_3>> \o remaining_header
                     header == PacketHeader_unpack(header_data)
                 IN  IF ~header.ok
                     THEN [result |-> ReceiveRaised(header.err), read |-> afterHeader]
                     ELSE
                     LET payload == IF header.payload_len > 0
                                    THEN Slice(s, afterHeader, afterHeader + header.payload_len)
                                    ELSE <<>>
                         afterPayload == afterHeader + Len(payload)
                     IN  IF Len(payload) < header.payload_len
                         THEN [result |-> ReturnedNone, read |-> afterPayload]
                         ELSE
                         LET footer_data == Slice(s, afterPayload, afterPayload + PacketFooter_SIZE)
                             afterFooter == afterPayload + Len(footer_data)
                         IN  IF Len(footer_data) < PacketFooter_SIZE
                             THEN [result |-> ReturnedNone, read |-> afterFooter]
                             ELSE
                             LET footer == PacketFooter_unpack(footer_data)
                                 expected_checksum ==
                                     (calc_checksum(header_data) + calc_checksum(payload)) % 65536
                             IN  IF footer.checksum # expected_checksum
                                 THEN [result |-> ReturnedNone, read |-> afterFooter]
                                 ELSE [result |-> ReturnedPacket(header, payload, footer),
                                       read |-> afterFooter]


\* build_ping_packet(timestamp_us)
build_ping_packet(timestamp_us) == build_packet(PING, PingPayload(timestamp_us), 0, 0, 1)

----------------------------------------------------------------------------
\* Extended form: send_raw / send_packet and test_gpu_ping_pong

\* SerialInterface.send_raw(data) (send_packet passes its packet on to it): the
\* value returned and the bytes written. write_ok: self.ser.write and
\* self.ser.flush raise nothing.
send_raw(connected, write_ok, data) ==
    IF ~connected THEN [ret |-> FALSE, written |-> <<>>]
    ELSE IF ~write_ok THEN [ret |-> FALSE, written |-> <<>>]
    ELSE [ret |-> TRUE, written |-> data]

\* What a test function gave back: True, a message (the test failed), or an exception
TestPassed == [kind |-> "True", msg |-> ""]
TestFailed(msg) == [kind |-> "failed", msg |-> msg]
TestRaised(msg) == [kind |-> "raised", msg |-> msg]
TestNotRun == [kind |-> "unset", msg |-> ""]

\* test_gpu_ping_pong: the port is flushed, the PING is sent and one receive_packet
\* call reads incoming, the bytes that reach the port after the flush
test_gpu_ping_pong(connected, timestamp, write_ok, incoming) ==
    IF ~connected THEN TestFailed("GPU not connected")
    ELSE IF ~send_raw(connected, write_ok, build_ping_packet(timestamp)).ret
    THEN TestFailed("Failed to send PING")
    ELSE LET response == receive_packet(connected, incoming).result
         IN  IF response.kind = "raised" THEN TestRaised(response.err)
             ELSE IF response.kind = "None" THEN TestFailed("No PONG response")
             ELSE IF response.header.msg_type # PONG THEN TestFailed("Wrong response type")
             ELSE IF /\ Len(response.payload) >= 4
                     /\ UnpackLE(Slice(response.payload, 0, 4)) # timestamp
             THEN TestFailed("Timestamp mismatch")
             ELSE TestPassed

----------------------------------------------------------------------------
\* receive_packet of both files, statement by statement

\* return cmd, payload (run_hardware_tests.py)
ReturnedTuple(cmd, payload) == [kind |-> "tuple", err |-> "", cmd |-> cmd, payload |-> payload]

\* Mutant of LoopContinues: the loop gives up one tick early
Mut_loop_one_tick_short(t, start_time, timeout) == t - start_time < timeout - 1

\* while time.time() - start_time < timeout
LoopContinues(t, start_time, timeout) == t - start_time < timeout

\* self.ser.read(n) returns when n bytes are waiting or when its timeout has passed
ReadReturns(waiting, n, t, deadline) == Len(waiting) >= n \/ t >= deadline

\* The sync pattern the loop looks for
SyncPattern(form) ==
    IF form = "short" THEN MAGIC ELSE <<SYNC_BYTE_1, SYNC_BYTE_2, SYNC_BYTE_3>>

\* The number of bytes the read at pc asks for: header = self.ser.read(2),
\* data = self.ser.read(length + 1) / remaining_header =
\* self.ser.read(PacketHeader.SIZE - 3), payload = self.ser.read(header.payload_len),
\* footer_data = self.ser.read(PacketFooter.SIZE)
BlockSize(form, pc, hdr) ==
    IF form = "short"
    THEN (IF pc = "header" THEN 2 ELSE hdr[2] + 1)
    ELSE CASE pc = "header" -> PacketHeader_SIZE - 3
           [] pc = "payload" -> PacketHeader_unpack(hdr).payload_len
           [] OTHER -> PacketFooter_SIZE

\* Mutant of ShortVerify: the expected checksum leaves the length out
Mut_short_verify_without_length(hdr, data) ==
    LET cmd == hdr[1]
        length == hdr[2]
        payload == Slice(data, 0, length)
        received_crc == data[length + 1]
        expected_crc == XorRange(<<cmd>> \o payload, 1, length + 1)
    IN  IF received_crc # expected_crc THEN ReturnedNone ELSE ReturnedTuple(cmd, payload)

\* The end of the short form call once data = self.ser.read(length + 1) is complete
ShortVerify(hdr, data) ==
    LET cmd == hdr[1]
        length == hdr[2]
        payload == Slice(data, 0, length)
        received_crc == data[length + 1]
        expected_crc == ShortCrc(cmd, length, payload)
    IN  IF received_crc # expected_crc THEN ReturnedNone ELSE ReturnedTuple(cmd, payload)

\* The end of the extended form call once footer_data is complete
ExtVerify(header_data, payload, footer_data) ==
    LET footer == PacketFooter_unpack(footer_data)
        expected_checksum == (calc_checksum(header_data) + calc_checksum(payload)) % 65536
    IN  IF ~footer.ok THEN ReceiveRaised(footer.err)
        ELSE IF footer.checksum # expected_checksum THEN ReturnedNone
        ELSE ReturnedPacket(PacketHeader_unpack(header_data), payload, footer)
----------------------------------------------------------------------------
\* Extended form: frame sizes and the fragment builders

HUB75_WIDTH == 128
HUB75_HEIGHT == 32
HUB75_RGB_SIZE == HUB75_WIDTH * HUB75_HEIGHT * 3

OLED_WIDTH == 128
OLED_HEIGHT == 128
OLED_MONO_SIZE == (OLED_WIDTH * OLED_HEIGHT) \div 8

FRAGMENT_SIZE == 1024
HUB75_FRAGMENT_COUNT == 12
OLED_FRAGMENT_COUNT == 2

PacketList(ps) == [ok |-> TRUE, err |-> "", packets |-> ps]
BuildRaised(msg) == [ok |-> FALSE, err |-> msg, packets |-> <<>>]
BuildNotRun == BuildRaised("unset")

\* Mutant of build_hub75_fragment_packets: every packet carries its own index as
\* the fragment total
Mut_hub75_total_is_index(rgb_data, frame_num) ==
    IF Len(rgb_data) # HUB75_RGB_SIZE THEN BuildRaised("Invalid HUB75 data size")
    ELSE PacketList(
        [k \in 1..HUB75_FRAGMENT_COUNT |->
            LET i == k - 1
                offset == i * FRAGMENT_SIZE
                frag_data == Slice(rgb_data, offset, offset + FRAGMENT_SIZE)
            IN  build_packet(HUB75_FRAG, frag_data, frame_num, i, i)])

\* Mutant of build_hub75_fragment_packets: consecutive fragments overlap by one byte
Mut_hub75_overlapping_offsets(rgb_data, frame_num) ==
    IF Len(rgb_data) # HUB75_RGB_SIZE THEN BuildRaised("Invalid HUB75 data size")
    ELSE PacketList(
        [k \in 1..HUB75_FRAGMENT_COUNT |->
            LET i == k - 1
                offset == i * (FRAGMENT_SIZE - 1)
                frag_data == Slice(rgb_data, offset, offset + FRAGMENT_SIZE)
            IN  build_packet(HUB75_FRAG, frag_data, frame_num, i, HUB75_FRAGMENT_COUNT)])

\* build_hub75_fragment_packets: for i in range(HUB75_FRAGMENT_COUNT), list index
\* k = i + 1
build_hub75_fragment_packets(rgb_data, frame_num) ==
    IF Len(rgb_data) # HUB75_RGB_SIZE THEN BuildRaised("Invalid HUB75 data size")
    ELSE PacketList(
        [k \in 1..HUB75_FRAGMENT_COUNT |->
            LET i == k - 1
                offset == i * FRAGMENT_SIZE
                frag_data == Slice(rgb_data, offset, offset + FRAGMENT_SIZE)
            IN  build_packet(HUB75_FRAG, frag_data, frame_num, i, HUB75_FRAGMENT_COUNT)])

\* build_hub75_frame_packet (legacy mode): the whole frame in one packet; the bytes
\* returned are kept as a list of one packet
build_hub75_frame_packet(rgb_data, frame_num) ==
    IF Len(rgb_data) # HUB75_RGB_SIZE THEN BuildRaised("Invalid HUB75 data size")
    ELSE PacketList(<<build_packet(HUB75_FRAME, rgb_data, frame_num, 0, 1)>>)

\* Mutant of build_oled_fragment_packets: only frames that are too short are refused
Mut_oled_accepts_longer(mono_data, frame_num) ==
    IF Len(mono_data) < OLED_MONO_SIZE THEN BuildRaised("Invalid OLED data size")
    ELSE PacketList(
        [k \in 1..OLED_FRAGMENT_COUNT |->
            LET i == k - 1
                offset == i * FRAGMENT_SIZE
                frag_data == Slice(mono_data, offset, offset + FRAGMENT_SIZE)
            IN  build_packet(OLED_FRAG, frag_data, frame_num, i, OLED_FRAGMENT_COUNT)])

\* build_oled_fragment_packets
build_oled_fragment_packets(mono_data, frame_num) ==
    IF Len(mono_data) # OLED_MONO_SIZE THEN BuildRaised("Invalid OLED data size")
    ELSE PacketList(
        [k \in 1..OLED_FRAGMENT_COUNT |->
            LET i == k - 1
                offset == i * FRAGMENT_SIZE
                frag_data == Slice(mono_data, offset, offset + FRAGMENT_SIZE)
            IN  build_packet(OLED_FRAG, frag_data, frame_num, i, OLED_FRAGMENT_COUNT)])

----------------------------------------------------------------------------
\* The state of a part of the model that takes no part in a specification

NoFault == [kind |-> "none", pos |-> 0, bit |-> 0, value |-> 0]

ShortIdle ==
    /\ spc = "idle"
    /\ sCmd = 0
    /\ sPayload = <<>>
    /\ sPacket = NoValue
    /\ sFault = NoFault
    /\ sData = <<>>
    /\ sResult = NoValue

ExtIdle ==
    /\ xpc = "idle"
    /\ xMsgType = 0
    /\ xPayload = <<>>
    /\ xFrameNum = 0
    /\ xFragIndex = 0
    /\ xFragTotal = 1
    /\ xPacket = <<>>
    /\ xHeader = HeaderNotRun
    /\ xFooter = FooterNotRun

RecvIdle ==
    /\ rpc = "idle"
    /\ rConnected = FALSE
    /\ rStream = <<>>
    /\ rSent = <<>>
    /\ rResult = ReceiveNotRun
    /\ rRest = <<>>

FragIdle ==
    /\ fpc = "idle"
    /\ fTarget = "none"
    /\ fFrame = <<>>
    /\ fFrameNum = 0
    /\ fPackets = BuildNotRun

\* A reassembler in state Idle: no frame in progress
ReassemblerIdle ==
    [state |-> "Idle", frame_num |-> 0, frag_total |-> 0, received |-> {},
     slots |-> <<>>]

\* Reassembler.accept returned no completed frame
NoFrame == [kind |-> "none", frame |-> <<>>]

ReasmIdle ==
    /\ mTarget = "none"
    /\ mFed = {}
    /\ mDup = FALSE
    /\ mAsm = ReassemblerIdle
    /\ mOut = NoFrame
    /\ mCompleted = 0

SimIdle == zLog = <<>>

\* No GpuSimulator has been constructed
NoGpuCall == [op |-> "none", cmd |-> 0, payload |-> <<>>, x |-> 0, y |-> 0, w |-> 0, h |-> 0,
              color |-> 0, ret |-> "none"]
NoGpu == [constructed |-> FALSE]
GpuIdle == gpu = NoGpu /\ xLog = <<>> /\ xLast = NoGpuCall

\* No consumer
PipeIdle == kpc = "idle" /\ kData = <<>> /\ kResults = <<>> /\ kCalls = 0

\* A producer that is not in a send_packet call
NoProducer ==
    [pc |-> "idle", sink |-> "none", cmd |-> 0, payload |-> <<>>, packet |-> NoValue,
     noise |-> <<>>, i |-> 0, ret |-> "unset"]

ConcIdle ==
    /\ prod = [p \in {1, 2} |-> NoProducer]
    /\ cOwners = <<>>

LinkIdle ==
    /\ lForm = "none"
    /\ lConnected = FALSE
    /\ lTimeout = 0
    /\ now = 0
    /\ lStream = <<>>
    /\ lPending = <<>>
    /\ lIn = <<>>
    /\ lpc = "idle"
    /\ lStart = 0
    /\ lDeadline = 0
    /\ lHdr = <<>>
    /\ lPayload = <<>>
    /\ lCalls = 0
    /\ lResult = ReceiveNotRun
    /\ lWhy = "unset"
    /\ lLog = <<>>

PingIdle ==
    /\ gpc = "idle"
    /\ gConnected = FALSE
    /\ gTimestamp = 0
    /\ gWriteOk = FALSE
    /\ gResponses = <<>>
    /\ gWritten = <<>>
    /\ gOutcome = TestNotRun

NoCall == [sink |-> "none", cmd |-> 0, payload |-> <<>>, ret |-> "unset", err |-> ""]

SendIdle ==
    /\ uart = UartSimulator("zero", "zero")
    /\ wConnected = FALSE
    /\ wWritten = <<>>
    /\ uCalls = 0
    /\ uLast = NoCall

----------------------------------------------------------------------------
\* Short form exchange: encode, let the link act on the bytes, decode

ShortPayloads == SeqsUpTo(ByteSamples, MaxLen) \cup {Fill(MAX_PAYLOAD, 255), Fill(MAX_PAYLOAD + 1, 0)}

\* First bytes a buffer without the magic starts with: the magic's own bytes, the
\* 0xBB of test_protocol_magic_detection, and the extremes
MagicSamples == {0, 85, 170, 187, 255}

ShortInit ==
    /\ PipeIdle
    /\ GpuIdle
    /\ SimIdle
    /\ ReasmIdle
    /\ PingIdle
    /\ LinkIdle
    /\ SendIdle
    /\ ConcIdle
    /\ ExtIdle
    /\ RecvIdle
    /\ FragIdle
    /\ spc = "input"
    /\ sCmd \in CmdSamples
    /\ sPayload \in ShortPayloads
    /\ sPacket = NoValue
    /\ sFault = NoFault
    /\ sData = <<>>
    /\ sResult = NoValue

\* packet = UartPacket.encode(cmd, payload)
Encode ==
    /\ spc = "input"
    /\ sPacket' = UartPacket_encode(sCmd, sPayload)
    /\ spc' = IF sPacket'.ok THEN "encoded" ELSE "rejected"
    /\ UNCHANGED <<sCmd, sPayload, sFault, sData, sResult>>
    /\ UNCHANGED notShort

\* The packet reaches the decoder as sent
Deliver ==
    /\ spc = "encoded"
    /\ sData' = sPacket.bytes
    /\ sFault' = NoFault
    /\ spc' = "onwire"
    /\ UNCHANGED <<sCmd, sPayload, sPacket, sResult>>
    /\ UNCHANGED notShort

\* One bit of one byte is flipped on the way: byte ^= (1 << bit)
FlipOneBit ==
    /\ spc = "encoded"
    /\ \E pos \in 0..(Len(sPacket.bytes) - 1), bit \in 0..7 :
          /\ sData' = SetByte(sPacket.bytes, pos, FlipBit(sPacket.bytes[pos + 1], bit))
          /\ sFault' = [kind |-> "bit", pos |-> pos, bit |-> bit, value |-> 0]
    /\ spc' = "onwire"
    /\ UNCHANGED <<sCmd, sPayload, sPacket, sResult>>
    /\ UNCHANGED notShort

\* The checksum byte is replaced by another value
ReplaceCrc ==
    /\ spc = "encoded"
    /\ \E v \in ByteSamples \cup {(sPacket.bytes[Len(sPacket.bytes)] + 1) % 256} :
          /\ v # sPacket.bytes[Len(sPacket.bytes)]
          /\ sData' = SetByte(sPacket.bytes, Len(sPacket.bytes) - 1, v)
          /\ sFault' = [kind |-> "crc", pos |-> Len(sPacket.bytes) - 1, bit |-> 0, value |-> v]
    /\ spc' = "onwire"
    /\ UNCHANGED <<sCmd, sPayload, sPacket, sResult>>
    /\ UNCHANGED notShort

\* The first two bytes are replaced by a pair that is not the magic, as in
\* bad_packet = bytes([0xBB, 0x55, 0x00, 0x00, 0x00])
ReplaceMagic ==
    /\ spc = "encoded"
    /\ \E m1 \in MagicSamples, m2 \in MagicSamples :
          /\ <<m1, m2>> # MAGIC
          /\ sData' = SetByte(SetByte(sPacket.bytes, 0, m1), 1, m2)
          /\ sFault' = [kind |-> "magic", pos |-> 0, bit |-> 0, value |-> (256 * m1) + m2]
    /\ spc' = "onwire"
    /\ UNCHANGED <<sCmd, sPayload, sPacket, sResult>>
    /\ UNCHANGED notShort

\* Only the first n bytes arrive, n less than the packet's length: packet[:n]
Truncate ==
    /\ spc = "encoded"
    /\ \E n \in 0..(Len(sPacket.bytes) - 1) :
          /\ sData' = Slice(sPacket.bytes, 0, n)
          /\ sFault' = [kind |-> "truncated", pos |-> n, bit |-> 0, value |-> 0]
    /\ spc' = "onwire"
    /\ UNCHANGED <<sCmd, sPayload, sPacket, sResult>>
    /\ UNCHANGED notShort

\* UartPacket.decode(data)
Decode ==
    /\ spc = "onwire"
    /\ sResult' = UartPacket_decode(sData)
    /\ spc' = "decoded"
    /\ UNCHANGED <<sCmd, sPayload, sPacket, sFault, sData>>
    /\ UNCHANGED notShort

ShortNext == Encode \/ Deliver \/ FlipOneBit \/ ReplaceCrc \/ ReplaceMagic \/ Truncate \/ Decode

SpecShort == ShortInit /\ [][ShortNext]_vars

----------------------------------------------------------------------------
\* Extended form exchange: build a packet, unpack its header and its footer

ExtByteSamples == {0, 85, 255}
MsgSamples == {PING, HUB75_FRAG, OLED_FRAG, STATS_RESPONSE}
FrameNumSamples == {0, 1, 258, 65535}

\* 0x12345678, the timestamp of test_packet_integrity
TestTimestamp == 305419896

ExtPayloads ==
    SeqsUpTo(ExtByteSamples, MaxExtLen)
        \cup {PingPayload(TestTimestamp), Fill(258, 255), Fill(1024, 255)}

ExtInit ==
    /\ PipeIdle
    /\ GpuIdle
    /\ SimIdle
    /\ ReasmIdle
    /\ PingIdle
    /\ LinkIdle
    /\ SendIdle
    /\ ConcIdle
    /\ ShortIdle
    /\ RecvIdle
    /\ FragIdle
    /\ xpc = "input"
    /\ xMsgType \in MsgSamples
    /\ xPayload \in ExtPayloads
    /\ xFrameNum \in FrameNumSamples
    /\ xFragIndex \in {0, 11}
    /\ xFragTotal \in {1, 12}
    /\ xPacket = <<>>
    /\ xHeader = HeaderNotRun
    /\ xFooter = FooterNotRun

\* packet = build_packet(msg_type, payload, frame_num, frag_index, frag_total)
BuildPacket ==
    /\ xpc = "input"
    /\ xPacket' = build_packet(xMsgType, xPayload, xFrameNum, xFragIndex, xFragTotal)
    /\ xpc' = "built"
    /\ UNCHANGED <<xMsgType, xPayload, xFrameNum, xFragIndex, xFragTotal, xHeader, xFooter>>
    /\ UNCHANGED notExt

\* header = PacketHeader.unpack(packet[:PacketHeader.SIZE])
UnpackHeader ==
    /\ xpc = "built"
    /\ xHeader = HeaderNotRun
    /\ xHeader' = PacketHeader_unpack(Slice(xPacket, 0, PacketHeader_SIZE))
    /\ UNCHANGED <<xpc, xMsgType, xPayload, xFrameNum, xFragIndex, xFragTotal, xPacket, xFooter>>
    /\ UNCHANGED notExt

\* footer = PacketFooter.unpack(packet[-PacketFooter.SIZE:])
UnpackFooter ==
    /\ xpc = "built"
    /\ xFooter = FooterNotRun
    /\ xFooter' = PacketFooter_unpack(Slice(xPacket, Len(xPacket) - PacketFooter_SIZE, Len(xPacket)))
    /\ UNCHANGED <<xpc, xMsgType, xPayload, xFrameNum, xFragIndex, xFragTotal, xPacket, xHeader>>
    /\ UNCHANGED notExt

ExtNext == BuildPacket \/ UnpackHeader \/ UnpackFooter

SpecExt == ExtInit /\ [][ExtNext]_vars

----------------------------------------------------------------------------
\* Extended form reception: the peer's packet arrives after some stray bytes, with
\* the end byte the link delivered, and receive_packet reads it

StrayPrefixes == SeqsUpTo({0, 170}, MaxStray)
EndByteSamples == {END_BYTE, 0, 170, 255}
RecvPayloads == {<<>>, <<85>>, PingPayload(TestTimestamp)}

RecvInit ==
    /\ PipeIdle
    /\ GpuIdle
    /\ SimIdle
    /\ ReasmIdle
    /\ PingIdle
    /\ LinkIdle
    /\ SendIdle
    /\ ConcIdle
    /\ ShortIdle
    /\ ExtIdle
    /\ FragIdle
    /\ rpc = "ready"
    /\ rConnected \in BOOLEAN
    /\ \E m \in {PING, PONG, HUB75_FRAG}, pl \in RecvPayloads, fn \in {0, 258},
          e \in EndByteSamples, stray \in StrayPrefixes :
          LET built == build_packet(m, pl, fn, 0, 1)
          IN  /\ rSent = SetByte(built, Len(built) - 1, e)
              /\ rStream = stray \o rSent
    /\ rResult = ReceiveNotRun
    /\ rRest = <<>>

\* response = receive_packet(timeout)
ReceivePacket ==
    /\ rpc = "ready"
    /\ LET r == receive_packet(rConnected, rStream)
       IN  /\ rResult' = r.result
           /\ rRest' = Slice(rStream, r.read, Len(rStream))
    /\ rpc' = "done"
    /\ UNCHANGED <<rConnected, rStream, rSent>>
    /\ UNCHANGED notRecv

RecvNext == ReceivePacket

SpecRecv == RecvInit /\ [][RecvNext]_vars

----------------------------------------------------------------------------
\* Fragmentation: a frame is handed to the fragment builder of its display

\* A frame of n bytes whose byte at offset i is (slope * i + first) mod 256
Ramp(n, slope, first) == [k \in 1..n |-> ((slope * (k - 1)) + first) % 256]

\* The gradient of test_hub75_frame_generation: R = x * 2, G = y * 8, B = (x + y) % 256
Hub75Gradient ==
    [k \in 1..HUB75_RGB_SIZE |->
        LET idx == k - 1
            x == (idx \div 3) % HUB75_WIDTH
            y == (idx \div 3) \div HUB75_WIDTH
        IN  CASE idx % 3 = 0 -> x * 2
              [] idx % 3 = 1 -> y * 8
              [] OTHER -> (x + y) % 256]

\* The checkerboard of test_oled_frame_generation
OledCheckerboard == [k \in 1..OLED_MONO_SIZE |-> IF (k - 1) % 2 = 0 THEN 170 ELSE 85]

FrameSizes(target) ==
    IF target \in {"hub75", "hub75_frame"} THEN {HUB75_RGB_SIZE, HUB75_RGB_SIZE - 1, FRAGMENT_SIZE}
    ELSE {OLED_MONO_SIZE, OLED_MONO_SIZE + 1, 0}

Frames(target) ==
    {Ramp(n, slope, first) : n \in FrameSizes(target), slope \in 0..MaxSlope, first \in {0, 255}}
        \cup (IF target \in {"hub75", "hub75_frame"} THEN {Hub75Gradient} ELSE {OledCheckerboard})

FragInit ==
    /\ PipeIdle
    /\ GpuIdle
    /\ SimIdle
    /\ ReasmIdle
    /\ PingIdle
    /\ LinkIdle
    /\ SendIdle
    /\ ConcIdle
    /\ ShortIdle
    /\ ExtIdle
    /\ RecvIdle
    /\ fpc = "input"
    /\ fTarget \in {"hub75", "hub75_frame", "oled"}
    /\ fFrame \in Frames(fTarget)
    /\ fFrameNum \in {0, 1, 65535}
    /\ fPackets = BuildNotRun

\* packets = build_hub75_fragment_packets(rgb_data, frame_num)
BuildHub75Fragments ==
    /\ fpc = "input"
    /\ fTarget = "hub75"
    /\ fPackets' = build_hub75_fragment_packets(fFrame, fFrameNum)
    /\ fpc' = "built"
    /\ UNCHANGED <<fTarget, fFrame, fFrameNum>>
    /\ UNCHANGED notFrag

\* packets = build_oled_fragment_packets(mono_data, frame_num)
BuildOledFragments ==
    /\ fpc = "input"
    /\ fTarget = "oled"
    /\ fPackets' = build_oled_fragment_packets(fFrame, fFrameNum)
    /\ fpc' = "built"
    /\ UNCHANGED <<fTarget, fFrame, fFrameNum>>
    /\ UNCHANGED notFrag

\* packet = build_hub75_frame_packet(rgb_data, frame_num)
BuildHub75Frame ==
    /\ fpc = "input"
    /\ fTarget = "hub75_frame"
    /\ fPackets' = build_hub75_frame_packet(fFrame, fFrameNum)
    /\ fpc' = "built"
    /\ UNCHANGED <<fTarget, fFrame, fFrameNum>>
    /\ UNCHANGED notFrag

FragNext == BuildHub75Fragments \/ BuildHub75Frame \/ BuildOledFragments

SpecFrag == FragInit /\ [][FragNext]_vars

----------------------------------------------------------------------------
\* Short form sending: send_packet calls, one after the other, on a UartSimulator
\* and on a connected or unconnected SerialInterface

SendCmds == {16}
SendPayloads == {<<>>, <<170, 85>>, Fill(MAX_PAYLOAD, 255), Fill(MAX_PAYLOAD + 1, 0)}

\* Outcomes of the draws of the noise loop that are told apart: no flip, bit 7 of
\* the first byte flipped, or bit 0 of the last byte flipped
NoiseChoices(error_rate, packet) ==
    IF error_rate = "zero" \/ ~packet.ok THEN {<<>>}
    ELSE {<<>>, <<0, 7>>, <<Len(packet.bytes) - 1, 0>>}

\* Outcomes of random.random() < self.drop_rate
DropChoices(drop_rate) == IF drop_rate = "zero" THEN {FALSE} ELSE BOOLEAN

SendInit ==
    /\ PipeIdle
    /\ GpuIdle
    /\ SimIdle
    /\ ReasmIdle
    /\ PingIdle
    /\ LinkIdle
    /\ ConcIdle
    /\ ShortIdle
    /\ ExtIdle
    /\ RecvIdle
    /\ FragIdle
    /\ \E error_rate \in {"zero", "positive"}, drop_rate \in {"zero", "positive"} :
          uart = UartSimulator(error_rate, drop_rate)
    /\ wConnected \in BOOLEAN
    /\ wWritten = <<>>
    /\ uCalls = 0
    /\ uLast = NoCall

\* uart.send_packet(cmd, payload)
SimSendPacket ==
    /\ uCalls < MaxSends
    /\ \E cmd \in SendCmds, payload \in SendPayloads, drop \in DropChoices(uart.drop_rate) :
          \E noise \in NoiseChoices(uart.error_rate, UartPacket_encode(cmd, payload)) :
             LET out == UartSimulator_send_packet(uart, cmd, payload, drop, noise)
             IN  /\ uart' = out.state
                 /\ uLast' = [sink |-> "sim", cmd |-> cmd, payload |-> payload,
                              ret |-> out.ret, err |-> out.err]
    /\ uCalls' = uCalls + 1
    /\ UNCHANGED <<wConnected, wWritten>>
    /\ UNCHANGED notSend

\* serial.send_packet(cmd, payload) of run_hardware_tests.py
SerialSendPacket ==
    /\ uCalls < MaxSends
    /\ \E cmd \in SendCmds, payload \in SendPayloads :
          LET out == SerialInterface_send_packet(wConnected, wWritten, cmd, payload)
          IN  /\ wWritten' = out.state
              /\ uLast' = [sink |-> "serial", cmd |-> cmd, payload |-> payload,
                           ret |-> out.ret, err |-> out.err]
    /\ uCalls' = uCalls + 1
    /\ UNCHANGED <<uart, wConnected>>
    /\ UNCHANGED notSend

SendNext == SimSendPacket \/ SerialSendPacket

SpecSend == SendInit /\ [][SendNext]_vars

----------------------------------------------------------------------------
\* Short form sending by two producers: each is in one send_packet call on the same
\* sink, and a step of the model is what one producer does between two points where
\* the other one can run. On the UartSimulator these are the statements of
\* send_packet, one turn of the byte loop at a time; SerialInterface.send_packet
\* hands the whole packet to ser.write in one call.

Producers == {1, 2}
ConcPayloads == {<<>>, <<170>>}

ConcInit ==
    /\ PipeIdle
    /\ GpuIdle
    /\ SimIdle
    /\ ReasmIdle
    /\ PingIdle
    /\ LinkIdle
    /\ ShortIdle
    /\ ExtIdle
    /\ RecvIdle
    /\ FragIdle
    /\ \E error_rate \in {"zero", "positive"}, drop_rate \in {"zero", "positive"} :
          uart = UartSimulator(error_rate, drop_rate)
    /\ wConnected \in BOOLEAN
    /\ wWritten = <<>>
    /\ uCalls = 0
    /\ uLast = NoCall
    /\ \E sink \in {"sim", "serial"} :
          prod \in [Producers -> {[NoProducer EXCEPT !.pc = "called", !.sink = sink,
                                                     !.cmd = cmd, !.payload = payload] :
                                     cmd \in SendCmds, payload \in ConcPayloads}]
    /\ cOwners = <<>>

\* packet = UartPacket.encode(cmd, payload)
ProducerEncode(p) ==
    /\ prod[p].pc = "called"
    /\ prod[p].sink = "sim"
    /\ LET packet == UartPacket_encode(prod[p].cmd, prod[p].payload)
       IN  prod' = [prod EXCEPT ![p].packet = packet,
                                ![p].pc = IF packet.ok THEN "drop" ELSE "raised",
                                ![p].ret = IF packet.ok THEN "unset" ELSE "raised"]
    /\ UNCHANGED <<uart, wConnected, wWritten, cOwners>>
    /\ UNCHANGED notConc

\* if random.random() < self.drop_rate: self.packets_dropped += 1; return False
\* Otherwise the byte loop is entered; the outcome of its draws is fixed here.
ProducerDrop(p) ==
    /\ prod[p].pc = "drop"
    /\ \E drop \in DropChoices(uart.drop_rate),
          noise \in NoiseChoices(uart.error_rate, prod[p].packet) :
          IF drop
          THEN /\ uart' = [uart EXCEPT !.packets_dropped = @ + 1]
               /\ prod' = [prod EXCEPT ![p].pc = "done", ![p].ret = "False"]
          ELSE /\ uart' = uart
               /\ prod' = [prod EXCEPT ![p].pc = "loop", ![p].noise = noise, ![p].i = 0]
    /\ UNCHANGED <<wConnected, wWritten, cOwners>>
    /\ UNCHANGED notConc

\* One turn of: for byte in packet: (flip a bit); self.tx_buffer.append(byte)
ProducerAppend(p) ==
    /\ prod[p].pc = "loop"
    /\ prod[p].i < Len(prod[p].packet.bytes)
    /\ uart' = [uart EXCEPT !.tx_buffer =
                    Append(@, Noisy(prod[p].packet.bytes, prod[p].noise)[prod[p].i + 1])]
    /\ cOwners' = Append(cOwners, p)
    /\ prod' = [prod EXCEPT ![p].i = @ + 1]
    /\ UNCHANGED <<wConnected, wWritten>>
    /\ UNCHANGED notConc

\* self.bytes_sent += len(packet)
ProducerCountBytes(p) ==
    /\ prod[p].pc = "loop"
    /\ prod[p].i = Len(prod[p].packet.bytes)
    /\ uart' = [uart EXCEPT !.bytes_sent = @ + Len(prod[p].packet.bytes)]
    /\ prod' = [prod EXCEPT ![p].pc = "count"]
    /\ UNCHANGED <<wConnected, wWritten, cOwners>>
    /\ UNCHANGED notConc

\* self.packets_sent += 1; return True
ProducerCountPacket(p) ==
    /\ prod[p].pc = "count"
    /\ uart' = [uart EXCEPT !.packets_sent = @ + 1]
    /\ prod' = [prod EXCEPT ![p].pc = "done", ![p].ret = "True"]
    /\ UNCHANGED <<wConnected, wWritten, cOwners>>
    /\ UNCHANGED notConc

\* SerialInterface.send_packet of run_hardware_tests.py: one ser.write(packet)
ProducerSerialWrite(p) ==
    /\ prod[p].pc = "called"
    /\ prod[p].sink = "serial"
    /\ LET out == SerialInterface_send_packet(wConnected, wWritten, prod[p].cmd,
                                              prod[p].payload)
       IN  /\ wWritten' = out.state
           /\ cOwners' = cOwners \o Fill(Len(out.state) - Len(wWritten), p)
           /\ prod' = [prod EXCEPT ![p].pc = "done", ![p].ret = out.ret]
    /\ UNCHANGED <<uart, wConnected>>
    /\ UNCHANGED notConc

ConcNext ==
    \E p \in Producers :
        \/ ProducerEncode(p)
        \/ ProducerDrop(p)
        \/ ProducerAppend(p)
        \/ ProducerCountBytes(p)
        \/ ProducerCountPacket(p)
        \/ ProducerSerialWrite(p)

SpecConc == ConcInit /\ [][ConcNext]_vars

----------------------------------------------------------------------------
\* Reception, statement by statement: receive_packet calls on a port whose bytes
\* arrive while the clock runs. A read returns as soon as the bytes it asked for are
\* waiting, and with what is waiting once its timeout has passed.

TimeoutSamples == {1, 2}

\* Short form streams: bytes in front of the packet (stray bytes, a magic cut short),
\* the packet, and what follows it
LinkShortPrefixes == {<<>>, <<0>>, <<170>>, <<170, 170>>, <<170, 0>>}
LinkShortPayloads == {<<>>, <<170, 85>>}
LinkShortPackets == {UartPacket_encode(16, pl).bytes : pl \in LinkShortPayloads}
LinkShortTails == {<<>>, UartPacket_encode(255, <<1>>).bytes}

\* Extended form streams: bytes in front of the packet (stray bytes, a sync pattern
\* cut short) and the packet
LinkExtPrefixes == {<<>>, <<0>>, <<170>>, <<170, 85>>, <<170, 85, 0>>}

\* A short form packet hit on the link: one bit of its cmd byte (offset 2), of its
\* length byte (offset 3: bit 1 turns length 0 into 2 and 2 into 0), of the byte
\* after the length byte (first payload byte, or the checksum of an empty packet)
\* or of its last byte (the checksum) is flipped
LinkHits(pkt) == {<<2, 0>>, <<3, 1>>, <<4, 0>>, <<Len(pkt) - 1, 7>>}
LinkHit(pkt, h) == SetByte(pkt, h[1], FlipBit(pkt[h[1] + 1], h[2]))
LinkCorrupted == UNION {{LinkHit(pkt, h) : h \in LinkHits(pkt)} : pkt \in LinkShortPackets}

\* The valid packet sent after a corrupted one
LinkFollowing == UartPacket_encode(255, <<1>>).bytes

LinkStreams(form) ==
    IF form = "short"
    THEN {pre \o pkt : pre \in LinkShortPrefixes, pkt \in LinkShortPackets}
             \cup {pkt \o tail : pkt \in LinkShortPackets, tail \in LinkShortTails}
             \cup {bad \o tail : bad \in LinkCorrupted, tail \in {<<>>, LinkFollowing}}
    ELSE {pre \o build_ping_packet(TestTimestamp) : pre \in LinkExtPrefixes}

\* How many bytes of a stream are at the port before the first call: none, all, or
\* all but the last 1, 3 or 12 (the checksum byte, the end of a short form packet,
\* the end of an extended form header)
LinkArrived(stream) ==
    {0, Len(stream)} \cup {Len(stream) - k : k \in {j \in {1, 3, 12} : j <= Len(stream)}}

LinkInit ==
    /\ PipeIdle
    /\ GpuIdle
    /\ SimIdle
    /\ ReasmIdle
    /\ PingIdle
    /\ ShortIdle
    /\ ExtIdle
    /\ RecvIdle
    /\ FragIdle
    /\ SendIdle
    /\ ConcIdle
    /\ lForm \in {"short", "ext"}
    /\ lConnected \in BOOLEAN
    /\ lTimeout \in TimeoutSamples
    /\ now = 0
    /\ lStream \in LinkStreams(lForm)
    /\ \E arrived \in LinkArrived(lStream) :
          /\ lIn = Slice(lStream, 0, arrived)
          /\ lPending = Slice(lStream, arrived, Len(lStream))
    /\ lpc = "idle"
    /\ lStart = 0
    /\ lDeadline = 0
    /\ lHdr = <<>>
    /\ lPayload = <<>>
    /\ lCalls = 0
    /\ lResult = ReceiveNotRun
    /\ lWhy = "unset"
    /\ lLog = <<>>

\* A return or a raise: the call is over and its locals are gone
LinkReturn(result, why) ==
    /\ lpc' = "idle"
    /\ lResult' = result
    /\ lWhy' = why
    /\ lLog' = Append(lLog, [result |-> result, why |-> why, pending |-> lPending])
    /\ lDeadline' = 0
    /\ lHdr' = <<>>
    /\ lPayload' = <<>>

\* The call goes on to the read at pc
LinkGoto(pc, hdr, payload) ==
    /\ lpc' = pc
    /\ lDeadline' = now + lTimeout
    /\ lHdr' = hdr
    /\ lPayload' = payload
    /\ UNCHANGED <<lResult, lWhy, lLog>>

\* The call goes back to the loop condition
LinkLoop ==
    /\ lpc' = "test"
    /\ lDeadline' = 0
    /\ UNCHANGED <<lHdr, lPayload, lResult, lWhy, lLog>>

\* receive_packet(timeout) is called: the connected test, self.ser.timeout = timeout,
\* start_time = time.time()
LinkCall ==
    /\ lpc = "idle"
    /\ lCalls < MaxCalls
    /\ lCalls' = lCalls + 1
    /\ IF ~lConnected
       THEN LinkReturn(ReturnedNone, "not connected") /\ UNCHANGED lStart
       ELSE /\ lpc' = "test"
            /\ lStart' = now
            /\ lResult' = ReceiveNotRun
            /\ lWhy' = "unset"
            /\ UNCHANGED <<lDeadline, lHdr, lPayload, lLog>>
    /\ UNCHANGED <<lForm, lConnected, lTimeout, now, lStream, lPending, lIn>>
    /\ UNCHANGED notLink

\* while time.time() - start_time < timeout; if not magic_found: return None
LinkLoopTest ==
    /\ lpc = "test"
    /\ IF LoopContinues(now, lStart, lTimeout)
       THEN LinkGoto("read1", lHdr, lPayload)
       ELSE LinkReturn(ReturnedNone, "no sync")
    /\ UNCHANGED <<lForm, lConnected, lTimeout, now, lStream, lPending, lIn, lStart, lCalls>>
    /\ UNCHANGED notLink

\* byte = self.ser.read(1) of the sync loop, for the k-th byte of the pattern. An
\* empty read and a byte that is not the k-th pattern byte both lead back to the
\* loop condition; the byte that was read is gone.
LinkSeekRead(k) ==
    /\ lpc = (CASE k = 1 -> "read1" [] k = 2 -> "read2" [] OTHER -> "read3")
    /\ k <= Len(SyncPattern(lForm))
    /\ ReadReturns(lIn, 1, now, lDeadline)
    /\ lIn' = Slice(lIn, 1, Len(lIn))
    /\ IF lIn # <<>> /\ lIn[1] = SyncPattern(lForm)[k]
       THEN IF k = Len(SyncPattern(lForm))
            THEN LinkGoto("header", lHdr, lPayload)
            ELSE LinkGoto((IF k = 1 THEN "read2" ELSE "read3"), lHdr, lPayload)
       ELSE LinkLoop
    /\ UNCHANGED <<lForm, lConnected, lTimeout, now, lStream, lPending, lStart, lCalls>>
    /\ UNCHANGED notLink

\* The reads after the sync loop and the statements up to the next read or return
LinkBlockRead ==
    /\ lpc \in {"header", "payload", "footer"}
    /\ LET n == BlockSize(lForm, lpc, lHdr)
           got == Slice(lIn, 0, n)
       IN  /\ ReadReturns(lIn, n, now, lDeadline)
           /\ lIn' = Slice(lIn, n, Len(lIn))
           /\ IF Len(got) < n
              THEN LinkReturn(ReturnedNone, "short read")
              ELSE IF lForm = "short"
              THEN IF lpc = "header"
                   THEN LinkGoto("payload", got, lPayload)
                   ELSE LET result == ShortVerify(lHdr, got)
                        IN  LinkReturn(result, IF result.kind = "None" THEN "checksum"
                                               ELSE "ok")
              ELSE CASE lpc = "header" ->
                        LET header_data == SyncPattern(lForm) \o got
                            header == PacketHeader_unpack(header_data)
                        IN  IF ~header.ok
                            THEN LinkReturn(ReceiveRaised(header.err), "unpack")
                            ELSE IF header.payload_len > 0
                            THEN LinkGoto("payload", header_data, <<>>)
                            ELSE LinkGoto("footer", header_data, <<>>)
                     [] lpc = "payload" -> LinkGoto("footer", lHdr, got)
                     [] OTHER ->
                        LET result == ExtVerify(lHdr, lPayload, got)
                        IN  LinkReturn(result,
                                CASE result.kind = "None" -> "checksum"
                                  [] result.kind = "raised" -> "unpack"
                                  [] OTHER -> "ok")
    /\ UNCHANGED <<lForm, lConnected, lTimeout, now, lStream, lPending, lStart, lCalls>>
    /\ UNCHANGED notLink

\* The clock advances. It is followed while the call can still see it: up to the
\* end of the loop's timeout at the loop condition, up to the deadline of a read
\* that waits for bytes.
LinkTick ==
    /\ \/ lpc = "test" /\ LoopContinues(now, lStart, lTimeout)
       \/ lpc \in {"read1", "read2", "read3", "header", "payload", "footer"} /\ now < lDeadline
    /\ now' = now + 1
    /\ UNCHANGED <<lForm, lConnected, lTimeout, lStream, lPending, lIn, lpc, lStart, lDeadline,
                   lHdr, lPayload, lCalls, lResult, lWhy, lLog>>
    /\ UNCHANGED notLink

\* The rest of the peer's bytes reaches the port
LinkArrive ==
    /\ lPending # <<>>
    /\ lIn' = lIn \o lPending
    /\ lPending' = <<>>
    /\ UNCHANGED <<lForm, lConnected, lTimeout, now, lStream, lpc, lStart, lDeadline,
                   lHdr, lPayload, lCalls, lResult, lWhy, lLog>>
    /\ UNCHANGED notLink

\* The statements of the call in progress
LinkStep == LinkLoopTest \/ (\E k \in 1..3 : LinkSeekRead(k)) \/ LinkBlockRead

LinkNext == LinkCall \/ LinkStep \/ LinkTick \/ LinkArrive

SpecLink == LinkInit /\ [][LinkNext]_vars

\* The clock advances and the interpreter runs the call; bytes may never arrive
SpecLinkFair == SpecLink /\ WF_vars(LinkTick) /\ WF_vars(LinkStep)

----------------------------------------------------------------------------
\* PING / PONG: one run of test_gpu_ping_pong against a GPU that answers with some
\* packets

\* Timestamps: int(time.time() * 1000000) & 0xFFFFFFFF (samples below 2^31)
TimestampSamples == {0, TestTimestamp, 2147483647}

\* Packets the GPU may answer with: a PONG echoing one of the timestamps, a PONG
\* with two payload bytes, the PING itself, a STATS_RESPONSE
ResponsePackets ==
    {build_packet(PONG, PingPayload(ts), 0, 0, 1) : ts \in TimestampSamples}
        \cup {build_packet(PONG, <<1, 2>>, 0, 0, 1),
              build_ping_packet(TestTimestamp),
              build_packet(STATS_RESPONSE, <<>>, 0, 0, 1)}

\* b''.join(packets)
RECURSIVE JoinFrom(_, _)
JoinFrom(packets, k) ==
    IF k > Len(packets) THEN <<>> ELSE packets[k] \o JoinFrom(packets, k + 1)

PingInit ==
    /\ PipeIdle
    /\ GpuIdle
    /\ SimIdle
    /\ ReasmIdle
    /\ ShortIdle
    /\ ExtIdle
    /\ RecvIdle
    /\ FragIdle
    /\ SendIdle
    /\ ConcIdle
    /\ LinkIdle
    /\ gpc = "ready"
    /\ gConnected \in BOOLEAN
    /\ gTimestamp \in TimestampSamples
    /\ gWriteOk \in BOOLEAN
    /\ gResponses \in SeqsUpTo(ResponsePackets, MaxResponses)
    /\ gWritten = <<>>
    /\ gOutcome = TestNotRun

\* result = test_gpu_ping_pong()
PingPong ==
    /\ gpc = "ready"
    /\ gOutcome' = test_gpu_ping_pong(gConnected, gTimestamp, gWriteOk, JoinFrom(gResponses, 1))
    /\ gWritten' = send_raw(gConnected, gWriteOk, build_ping_packet(gTimestamp)).written
    /\ gpc' = "done"
    /\ UNCHANGED <<gConnected, gTimestamp, gWriteOk, gResponses>>
    /\ UNCHANGED notPing

PingNext == PingPong

SpecPing == PingInit /\ [][PingNext]_vars

----------------------------------------------------------------------------
\* Claims about the short form

\* XOR of all bytes of s, stated bit by bit: bit k of the result is the parity of
\* the number of bytes of s that have bit k set
ParityBit(s, k) == Cardinality({i \in 1..Len(s) : Bit(s[i], k) = 1}) % 2
ParityXor(s) ==
      ParityBit(s, 0) + (2 * ParityBit(s, 1)) + (4 * ParityBit(s, 2)) + (8 * ParityBit(s, 3))
    + (16 * ParityBit(s, 4)) + (32 * ParityBit(s, 5)) + (64 * ParityBit(s, 6))
    + (128 * ParityBit(s, 7))

\* 0-based offsets of the short form
OffCmd == 2
OffLen == 3
OffPayload == 4
IsPayloadOffset(pos) == pos >= OffPayload /\ pos < OffPayload + Len(sPayload)
IsCrcOffset(pos) == pos = OffPayload + Len(sPayload)

\* C1: short-form round trip. Decoding an encoded packet that reached the decoder
\* unchanged returns exactly the command and the payload that were encoded.
C1_ShortRoundTrip ==
    (spc = "decoded" /\ sFault.kind = "none") =>
        /\ sResult.ok
        /\ sResult.cmd = sCmd
        /\ sResult.payload = sPayload

\* C1 witness: the longest legal payload (255 bytes) has made the round trip
C1_Witness ==
    /\ spc = "decoded"
    /\ sFault.kind = "none"
    /\ Len(sPayload) = MAX_PAYLOAD
    /\ sResult.ok
    /\ sResult.payload = sPayload

\* C2: short-form wire format. An encoded packet is len(payload)+5 bytes:
\* AA 55, cmd, len(payload), the payload, then the XOR of cmd, len and all payload
\* bytes; NOP with no payload is AA 55 00 00 00 and 0x10 with no payload is
\* AA 55 10 00 10.
C2_ShortWireFormat ==
    (spc = "encoded") =>
        LET p == sPacket.bytes
            n == Len(sPayload)
        IN  /\ sPacket.ok
            /\ Len(p) = n + 5
            /\ p[1] = 170 /\ p[2] = 85
            /\ p[3] = sCmd
            /\ p[4] = n
            /\ SubSeq(p, 5, 4 + n) = sPayload
            /\ p[n + 5] = ParityXor(<<sCmd, n>> \o sPayload)
            /\ (sCmd = 0 /\ n = 0) => p = <<170, 85, 0, 0, 0>>
            /\ (sCmd = 16 /\ n = 0) => p = <<170, 85, 16, 0, 16>>

\* C2 witness: the 0x10 scenario of the specification has been encoded, and so has
\* a packet with a payload
C2_Witness ==
    /\ spc = "encoded"
    /\ \/ sCmd = 16 /\ sPayload = <<>> /\ sPacket.bytes = <<170, 85, 16, 0, 16>>
       \/ sCmd = 1 /\ sPayload = <<16, 170, 255>> /\ Len(sPacket.bytes) = 8

\* C3: checksum gate. A replaced checksum byte, or one flipped bit in the command
\* byte or in a payload byte, makes decode fail with the CRC-mismatch error; and
\* whatever decode returns has a checksum equal to the transmitted checksum byte.
C3_ChecksumGate ==
    (spc = "decoded") =>
        /\ (sFault.kind = "crc") => (~sResult.ok /\ sResult.err = "CRC mismatch")
        /\ (sFault.kind = "bit" /\ (sFault.pos = OffCmd \/ IsPayloadOffset(sFault.pos))) =>
               (~sResult.ok /\ sResult.err = "CRC mismatch")
        /\ sResult.ok =>
               ParityXor(<<sResult.cmd, Len(sResult.payload)>> \o sResult.payload)
                   = sData[OffPayload + Len(sResult.payload) + 1]

\* C3 witness: a payload bit was flipped and decode raised the CRC-mismatch error
C3_Witness ==
    /\ spc = "decoded"
    /\ sFault.kind = "bit"
    /\ IsPayloadOffset(sFault.pos)
    /\ ~sResult.ok
    /\ sResult.err = "CRC mismatch"

\* The flipped bit of the length byte was 0 before the flip (the declared length grew)
LengthGrew == sFault.pos = OffLen /\ sData[OffLen + 1] > Len(sPayload)

\* C4 as stated: every single flipped bit, wherever it is in the packet, makes
\* decode raise.
C4_AnyBitFlipRejected ==
    (spc = "decoded" /\ sFault.kind = "bit") => ~sResult.ok

\* C4 as amended: a single flipped bit in the magic, the command, the payload or the
\* checksum byte, or one that raises the declared length, makes decode raise. (A
\* flip that lowers the declared length is outside the statement: decode ignores the
\* bytes after the shortened packet.)
C4_BitFlipRejectedOutsideShrunkLength ==
    (spc = "decoded" /\ sFault.kind = "bit" /\ (sFault.pos # OffLen \/ LengthGrew)) =>
        ~sResult.ok

\* C4 witness: a flip in the length byte raised the declared length and decode
\* raised the incomplete-packet error
C4_Witness ==
    /\ spc = "decoded"
    /\ sFault.kind = "bit"
    /\ LengthGrew
    /\ ~sResult.ok
    /\ sResult.err = "Incomplete packet"

----------------------------------------------------------------------------
\* Claims about the extended form

\* The checksum and the end byte as they stand in the last three bytes of a packet
WireChecksum(p) == p[Len(p) - 2] + (256 * p[Len(p) - 1])
WireEndByte(p) == p[Len(p)]

\* C5 as stated: build_packet returns PacketHeader.SIZE + len(payload) +
\* PacketFooter.SIZE bytes: AA 55 CC, the message type in one byte at offset 3, the
\* payload length (u16 LE) at 4-5, the frame number (u16 LE) at 6-7, the fragment
\* index at 8, the fragment total at 9, the payload from offset 10, the checksum
\* (u16 LE) and a final 0x55.
C5_ExtendedWireFormat ==
    (xpc = "built") =>
        LET p == xPacket
            n == Len(xPayload)
        IN  /\ Len(p) = PacketHeader_SIZE + n + PacketFooter_SIZE
            /\ p[1] = 170 /\ p[2] = 85 /\ p[3] = 204
            /\ p[4] = xMsgType
            /\ p[5] + (256 * p[6]) = n
            /\ p[7] + (256 * p[8]) = xFrameNum
            /\ p[9] = xFragIndex
            /\ p[10] = xFragTotal
            /\ Slice(p, 10, 10 + n) = xPayload
            /\ WireChecksum(p) = (SumRange(p, 1, 10) + SumRange(xPayload, 1, n)) % 65536
            /\ WireEndByte(p) = 85

\* C6: the checksum build_packet writes into the footer is (sum of the header bytes
\* + sum of the payload bytes) mod 65536; masking the two sums separately before
\* adding them changes nothing, also when the payload bytes add up to more than
\* 65535.
C6_ExtendedChecksum ==
    (xpc = "built") =>
        LET p == xPacket
            n == Len(xPayload)
            headerEnd == Len(p) - PacketFooter_SIZE - n
        IN  WireChecksum(p)
                = (SumRange(p, 1, headerEnd) + SumRange(xPayload, 1, n)) % 65536

\* C6 witness: a packet was built whose payload bytes add up to more than 65535
C6_Witness ==
    /\ xpc = "built"
    /\ SumRange(xPayload, 1, Len(xPayload)) > 65535
    /\ WireChecksum(xPacket)
           = (SumRange(xPacket, 1, Len(xPacket) - PacketFooter_SIZE - Len(xPayload))
                  + SumRange(xPayload, 1, Len(xPayload))) % 65536

\* C7 as stated: PacketHeader.unpack of the first PacketHeader.SIZE bytes of a built
\* packet succeeds and returns the message type, payload length, frame number,
\* fragment index and fragment total that were given; the payload_len bytes from
\* offset PacketHeader.SIZE are the payload; PacketFooter.unpack of the last three
\* bytes returns the checksum that was written.
C7_ExtendedRoundTrip ==
    /\ (xHeader # HeaderNotRun) =>
           /\ xHeader.ok
           /\ xHeader.msg_type = xMsgType
           /\ xHeader.payload_len = Len(xPayload)
           /\ xHeader.frame_num = xFrameNum
           /\ xHeader.frag_index = xFragIndex
           /\ xHeader.frag_total = xFragTotal
           /\ Slice(xPacket, PacketHeader_SIZE, PacketHeader_SIZE + xHeader.payload_len) = xPayload
    /\ (xFooter # FooterNotRun) =>
           /\ xFooter.ok
           /\ xFooter.checksum = WireChecksum(xPacket)

\* The stream holds a packet whose checksum is right and whose end byte is wrong
BadEndMarkerSent ==
    /\ WireEndByte(rSent) # END_BYTE
    /\ WireChecksum(rSent) = SumRange(rSent, 1, Len(rSent) - PacketFooter_SIZE) % 65536

\* C8 as stated: receive_packet never returns a packet whose end byte is not 0x55,
\* even when the checksum matches; such a packet is rejected (the call returns None).
C8_EndMarkerChecked ==
    (rpc = "done") =>
        /\ (rResult.kind = "packet") => rResult.footer.end_byte = END_BYTE
        /\ (rConnected /\ BadEndMarkerSent) => rResult.kind = "None"

----------------------------------------------------------------------------
\* Claims about fragmentation

\* The header fields of a packet, read where PacketHeader.pack wrote them, and the
\* bytes between that header and the footer
PackedHeaderSize == StructCalcsize(HeaderFormat)
WireHeader(p) == StructFields(HeaderFormat, Slice(p, 0, PackedHeaderSize))
WirePayload(p) == Slice(p, PackedHeaderSize, Len(p) - PacketFooter_SIZE)
WireMsgType(p) == WireHeader(p)[4]
WirePayloadLen(p) == WireHeader(p)[5]
WireFrameNum(p) == WireHeader(p)[6]
WireFragIndex(p) == WireHeader(p)[7]
WireFragTotal(p) == WireHeader(p)[8]

\* The frame has the exact size of its display
ExactFrame ==
    \/ fTarget = "hub75" /\ Len(fFrame) = 12288
    \/ fTarget = "oled" /\ Len(fFrame) = 2048

RECURSIVE PayloadsFrom(_, _)
PayloadsFrom(ps, k) ==
    IF k > Len(ps) THEN <<>> ELSE WirePayload(ps[k]) \o PayloadsFrom(ps, k + 1)

RECURSIVE PayloadLengthsFrom(_, _)
PayloadLengthsFrom(ps, k) ==
    IF k > Len(ps) THEN 0 ELSE Len(WirePayload(ps[k])) + PayloadLengthsFrom(ps, k + 1)

\* ceil(a / b)
CeilDiv(a, b) == (a + b - 1) \div b

----------------------------------------------------------------------------
\* Claims about the errors of the short form decoder

\* C18: a buffer of at least 5 bytes whose first two bytes are not AA 55 makes
\* decode raise the invalid-magic error, whatever the bytes after them are (here: a
\* packet whose command, length, payload and checksum are consistent).
C18_BadMagicRejected ==
    (spc = "decoded" /\ Len(sData) >= 5 /\ Slice(sData, 0, 2) # <<170, 85>>) =>
        (~sResult.ok /\ sResult.err = "Invalid magic")

\* C18 witness: only the second magic byte was replaced (AA 00 ...), the rest of the
\* packet is intact, and decode raised the invalid-magic error
C18_Witness ==
    /\ spc = "decoded"
    /\ sFault.kind = "magic"
    /\ sData[1] = 170
    /\ sData[2] # 85
    /\ Len(sData) >= 5
    /\ ~sResult.ok
    /\ sResult.err = "Invalid magic"

\* C19: decode of a proper prefix of a valid packet never returns a result: it
\* raises packet-too-short when the prefix has fewer than 5 bytes and
\* incomplete-packet when it has at least 5 bytes (and so fewer than 4 + declared
\* length + 1).
C19_TruncatedRejected ==
    (spc = "decoded" /\ sFault.kind = "truncated") =>
        /\ ~sResult.ok
        /\ (Len(sData) < 5) => (sResult.err = "Packet too short")
        /\ (Len(sData) >= 5) =>
               /\ Len(sData) < 4 + sData[OffLen + 1] + 1
               /\ sResult.err = "Incomplete packet"

\* C19 witness: a packet with a payload lost only its checksum byte and decode
\* raised the incomplete-packet error
C19_Witness ==
    /\ spc = "decoded"
    /\ sFault.kind = "truncated"
    /\ Len(sPayload) > 0
    /\ Len(sData) = Len(sPacket.bytes) - 1
    /\ ~sResult.ok
    /\ sResult.err = "Incomplete packet"

----------------------------------------------------------------------------
\* Claims about the errors of the frame builders

\* The length the builder named by fTarget asks of its frame
ExpectedFrameSize == IF fTarget = "oled" THEN OLED_MONO_SIZE ELSE HUB75_RGB_SIZE

\* The message of the ValueError the builder named by fTarget raises
InvalidSizeError == IF fTarget = "oled" THEN "Invalid OLED data size" ELSE "Invalid HUB75 data size"

\* C20: build_hub75_fragment_packets and build_hub75_frame_packet raise the
\* invalid-size error for every frame whose length is not 12288,
\* build_oled_fragment_packets for every frame whose length is not 2048, and then
\* return no packet at all; a frame of the expected length is not refused.
C20_WrongSizeRejected ==
    (fpc = "built") =>
        IF Len(fFrame) # ExpectedFrameSize
        THEN /\ ~fPackets.ok
             /\ fPackets.err = InvalidSizeError
             /\ fPackets.packets = <<>>
        ELSE fPackets.ok /\ Len(fPackets.packets) > 0

\* C20 witness: build_hub75_frame_packet was handed a frame one byte short and
\* raised the invalid-size error
C20_Witness ==
    /\ fpc = "built"
    /\ fTarget = "hub75_frame"
    /\ Len(fFrame) = HUB75_RGB_SIZE - 1
    /\ ~fPackets.ok
    /\ fPackets.err = "Invalid HUB75 data size"

----------------------------------------------------------------------------
\* Claims about the short form senders

\* C17: a send_packet call with a payload longer than 255 bytes ends with the
\* payload-too-large error of UartPacket.encode (raised to the caller by
\* UartSimulator.send_packet, caught and turned into False by a connected
\* SerialInterface.send_packet; an unconnected one returns False before it encodes)
\* and leaves tx_buffer, the bytes written to the port
\* and every counter as they were; with a payload of 0..255 bytes encode raises
\* nothing, and a send that is neither dropped nor unconnected adds len + 5 bytes.
C17_OversizedRejected ==
    [][(uCalls' = uCalls + 1) =>
          IF Len(uLast'.payload) > 255
          THEN /\ (uLast'.sink = "sim" \/ wConnected) => (uLast'.err = "Payload too large")
               /\ uLast'.ret = (IF uLast'.sink = "sim" THEN "raised" ELSE "False")
               /\ uart' = uart
               /\ wWritten' = wWritten
          ELSE /\ uLast'.err = ""
               /\ uLast'.ret # "raised"
               /\ (uLast'.ret = "True") =>
                      Len(uart'.tx_buffer) + Len(wWritten')
                          = Len(uart.tx_buffer) + Len(wWritten) + Len(uLast'.payload) + 5
    ]_vars

\* C17 witness: after a send that put a packet into tx_buffer, a send of 256 bytes
\* through the simulator raised
C17_Witness ==
    /\ uCalls = 2
    /\ uLast.sink = "sim"
    /\ Len(uLast.payload) = 256
    /\ uLast.ret = "raised"
    /\ uart.packets_sent = 1
    /\ uart.tx_buffer # <<>>

----------------------------------------------------------------------------
\* Claims about concurrent senders

\* C16 as stated: with two producers in send_packet on the same sink, the bytes of
\* each packet are contiguous on the sink in every interleaving: no byte of one
\* producer's packet lies between two bytes of the other's.
C16_PacketWritesAtomic ==
    \A i \in 1..Len(cOwners) : \A k \in i..Len(cOwners) :
        (cOwners[i] = cOwners[k]) => (\A j \in i..k : cOwners[j] = cOwners[i])

----------------------------------------------------------------------------
\* Claims about reception, statement by statement

\* The read in progress came back with fewer bytes than the header, payload or
\* footer read asked for
ShortBlockRead ==
    /\ lpc \in {"header", "payload", "footer"}
    /\ lpc' # lpc
    /\ Len(lIn) < BlockSize(lForm, lpc, lHdr)

\* C15: with the clock advancing and every read returning by its timeout, every
\* receive_packet call ends; a call that found no sync pattern ends with None and
\* not before the timeout has elapsed since start_time; a header, payload or footer
\* read that comes back short ends the call with None in that very step; and the
\* next call starts at the loop condition with a new start_time and none of the
\* locals of the call before.
C15_BlockedReadReturns ==
    /\ [](lpc = "idle" /\ lWhy = "no sync" =>
            lResult = ReturnedNone /\ now - lStart >= lTimeout)
    /\ [][ShortBlockRead => (lpc' = "idle" /\ lResult' = ReturnedNone /\ now' = now)]_vars
    /\ [][(lpc = "idle" /\ lpc' # "idle") =>
            /\ lpc' = "test"
            /\ lStart' = now
            /\ lHdr' = <<>>
            /\ lPayload' = <<>>
            /\ lResult' = ReceiveNotRun]_vars
    /\ ((lpc # "idle") ~> (lpc = "idle"))

\* C15 witness: a second call is seeking after the first one found no sync pattern
\* within its timeout while bytes of the peer had not arrived
C15_Witness ==
    /\ lCalls = 1
    /\ lpc = "idle"
    /\ lResult = ReturnedNone
    /\ lWhy = "no sync"
    /\ now - lStart >= lTimeout
    /\ lPending # <<>>

\* The call of the run that has ended read every byte the peer sent
ReadWholeStream ==
    /\ lConnected
    /\ lCalls = 1
    /\ lpc = "idle"
    /\ lIn = <<>>
    /\ lPending = <<>>

\* Prefixes that end in the first byte(s) of the sync pattern, and not in all of it
PartialMatches(prefixes) == {pre \in prefixes : pre # <<>> /\ pre[Len(pre)] # 0}

\* C11 as stated: when a valid packet comes right after bytes that match the
\* beginning of the sync pattern (AA AA 55 ..., AA 55 AA 55 CC ...), the call that
\* reads the stream synchronises on the packet's own pattern and returns the packet.
C11_ResyncKeepsOverlap ==
    ReadWholeStream =>
        /\ \A pre \in PartialMatches(LinkShortPrefixes), pl \in LinkShortPayloads :
               (lForm = "short" /\ lStream = pre \o UartPacket_encode(16, pl).bytes) =>
                   lResult = ReturnedTuple(16, pl)
        /\ \A pre \in PartialMatches(LinkExtPrefixes) :
               (lForm = "ext" /\ lStream = pre \o build_ping_packet(TestTimestamp)) =>
                   (lResult.kind = "packet" /\ lResult.payload = PingPayload(TestTimestamp))

----------------------------------------------------------------------------
\* Claims about the extended form receive_packet as one call

\* C12 as stated: whatever the stream holds, receive_packet ends by returning a
\* packet whose checksum it has verified, or None; no exception leaves the call.
C12_CorruptionNeverFatal ==
    (rpc = "done") =>
        \/ rResult.kind = "None"
        \/ /\ rResult.kind = "packet"
           /\ rResult.footer.checksum = WireChecksum(rSent)

\* C13 as stated: on the stream 00 followed by build_ping_packet(timestamp), the
\* call skips the 00 and returns the PING: its header fields and the four bytes of
\* the timestamp.
C13_StrayByteThenPing ==
    (rpc = "done" /\ rConnected /\ rStream = <<0>> \o build_ping_packet(TestTimestamp)) =>
        /\ rResult.kind = "packet"
        /\ rResult.header.msg_type = PING
        /\ rResult.header.payload_len = 4
        /\ rResult.header.frame_num = 0
        /\ rResult.header.frag_index = 0
        /\ rResult.header.frag_total = 1
        /\ rResult.payload = PingPayload(TestTimestamp)

----------------------------------------------------------------------------
\* Claims about PING / PONG

\* The PING went out: the port is connected and the write went through
PingSent == gConnected /\ gWriteOk

\* Among the packets the GPU answered with there is a PONG echoing the timestamp sent
MatchingPongArrives ==
    \E k \in 1..Len(gResponses) :
        gResponses[k] = build_packet(PONG, PingPayload(gTimestamp), 0, 0, 1)

\* C14 as stated: once the PING is sent, responses that are not the PONG echoing
\* the sent timestamp are passed over; the exchange ends with success when that PONG
\* arrives and with the timeout outcome when it does not, never with a failure about
\* a mismatching response.
C14_PingToleratesStale ==
    (gpc = "done" /\ PingSent) =>
        IF MatchingPongArrives
        THEN gOutcome = TestPassed
        ELSE gOutcome = TestFailed("No PONG response")


----------------------------------------------------------------------------
\* Claims about the payload bound of the extended form

\* C21: every packet an extended-form builder produces carries at most
\* FRAGMENT_SIZE = 1024 payload bytes, both in its payload_len field and in the
\* bytes between header and footer; a larger payload is refused.
C21_ExtPayloadBounded ==
    (fpc = "built" /\ fPackets.ok) =>
        \A k \in 1..Len(fPackets.packets) :
            /\ WirePayloadLen(fPackets.packets[k]) <= FRAGMENT_SIZE
            /\ Len(WirePayload(fPackets.packets[k])) <= FRAGMENT_SIZE

----------------------------------------------------------------------------
\* Reassembly: the fragments a builder made for one frame are handed, one at a
\* time and in any order, to the receiver's Reassembler.accept

\* The frame length the receiver knows for the display a fragment type belongs to
ExpectedSize(msg_type) ==
    IF msg_type = HUB75_FRAG THEN HUB75_RGB_SIZE
    ELSE IF msg_type = OLED_FRAG THEN OLED_MONO_SIZE
    ELSE 0

\* Reassembler.accept returned a completed frame
CompletedFrame(frame) == [kind |-> "frame", frame |-> frame]
\* Reassembler.accept reported an error and discarded the buffer
Dropped(error) == [kind |-> error, frame |-> <<>>]

\* The payloads kept for the indices lo .. hi - 1, in index order
RECURSIVE Assemble(_, _, _)
Assemble(slots, lo, hi) ==
    IF lo >= hi THEN <<>> ELSE slots[lo] \o Assemble(slots, lo + 1, hi)

\* The buffer after the payload was written at frag_index and the index marked
MarkReceived(self, frag_index, payload) ==
    [self EXCEPT !.received = @ \cup {frag_index},
                 !.slots = [j \in self.received \cup {frag_index} |->
                               IF j = frag_index THEN payload ELSE self.slots[j]]]

\* A new buffer in state Collecting for the frame the fragment belongs to
StartCollecting(frame_num, frag_total) ==
    [state |-> "Collecting", frame_num |-> frame_num, frag_total |-> frag_total,
     received |-> {}, slots |-> <<>>]

\* Reassembler.accept(packet): returns the reassembler after the call and what the
\* call returned. The fragment's type, frame number, index, total and payload are
\* read from the packet where PacketHeader.pack put them.
Reassembler_accept(self, packet) ==
    LET header == WireHeader(packet)
        msg_type == header[4]
        frame_num == header[6]
        frag_index == header[7]
        frag_total == header[8]
        payload == WirePayload(packet)
        \* a fragment of another frame discards the buffer in progress
        current == IF self.state = "Collecting" /\ self.frame_num = frame_num
                   THEN self
                   ELSE StartCollecting(frame_num, frag_total)
        marked == MarkReceived(current, frag_index, payload)
        assembled == Assemble(marked.slots, 0, marked.frag_total)
    IN  IF current.frag_total # frag_total
        THEN [self |-> ReassemblerIdle, out |-> Dropped("FragmentCountMismatch")]
        ELSE IF \A j \in 0..(marked.frag_total - 1) : j \in marked.received
        THEN IF Len(assembled) = ExpectedSize(msg_type)
             THEN [self |-> ReassemblerIdle, out |-> CompletedFrame(assembled)]
             ELSE [self |-> ReassemblerIdle, out |-> Dropped("ReassemblyLengthMismatch")]
        ELSE [self |-> marked, out |-> NoFrame]

\* A frame of n bytes in which no two runs of FRAGMENT_SIZE bytes are alike
Staircase(n) == [k \in 1..n |-> ((k - 1) \div 8) % 256]

\* frame_num of the frames the tests build
TestFrameNum == 1

\* The frame sent to each display and the packets its fragment builder makes of it
Hub75Sent == Hub75Gradient
OledSent == Staircase(OLED_MONO_SIZE)
Hub75SentPackets == build_hub75_fragment_packets(Hub75Sent, TestFrameNum)
OledSentPackets == build_oled_fragment_packets(OledSent, TestFrameNum)
SentFrame(target) == IF target = "hub75" THEN Hub75Sent ELSE OledSent
SentPackets(target) == IF target = "hub75" THEN Hub75SentPackets ELSE OledSentPackets

ReasmInit ==
    /\ PipeIdle
    /\ GpuIdle
    /\ SimIdle
    /\ PingIdle
    /\ LinkIdle
    /\ SendIdle
    /\ ConcIdle
    /\ ShortIdle
    /\ ExtIdle
    /\ RecvIdle
    /\ FragIdle
    /\ mTarget \in {"hub75", "oled"}
    /\ mFed = {}
    /\ mDup = FALSE
    /\ mAsm = ReassemblerIdle
    /\ mOut = NoFrame
    /\ mCompleted = 0

\* The receiver takes the k-th packet of the list
Accept(k) ==
    LET r == Reassembler_accept(mAsm, SentPackets(mTarget).packets[k])
    IN  /\ mAsm' = r.self
        /\ mOut' = r.out
        /\ mCompleted' = IF r.out.kind = "frame" THEN mCompleted + 1 ELSE mCompleted
        /\ mFed' = mFed \cup {k}
        /\ UNCHANGED mTarget
        /\ UNCHANGED notReasm

\* A fragment arrives for the first time
AcceptFragment ==
    /\ SentPackets(mTarget).ok
    /\ \E k \in 1..Len(SentPackets(mTarget).packets) :
          /\ k \notin mFed
          /\ mDup' = mDup
          /\ Accept(k)

\* A fragment that arrived before arrives again while the frame is incomplete
AcceptDuplicate ==
    /\ mCompleted = 0
    /\ \E k \in mFed :
          /\ mDup' = TRUE
          /\ Accept(k)

ReasmNext == AcceptFragment \/ AcceptDuplicate

SpecReasm == ReasmInit /\ [][ReasmNext]_vars

----------------------------------------------------------------------------
\* Claims about reassembly

\* Every fragment of the list has been handed over at least once
AllFed == SentPackets(mTarget).ok /\ mFed = 1..Len(SentPackets(mTarget).packets)

----------------------------------------------------------------------------
\* Claims about recovery after a corrupted packet

\* A corrupted short form packet and the valid packet sent after it are the stream,
\* the first call found the magic and returned None for the corrupted packet, and
\* by then every byte of the stream had reached the port
BadPacketRejected ==
    /\ lForm = "short"
    /\ lConnected
    /\ \E bad \in LinkCorrupted : lStream = bad \o LinkFollowing
    /\ Len(lLog) >= 1
    /\ lLog[1].result = ReturnedNone
    /\ lLog[1].why \in {"checksum", "short read"}
    /\ lLog[1].pending = <<>>

\* The whole of the following packet is still waiting at the port
FollowingUnread ==
    /\ Len(lIn) >= Len(LinkFollowing)
    /\ Slice(lIn, Len(lIn) - Len(LinkFollowing), Len(lIn)) = LinkFollowing

\* C23: after a short form receive_packet call has returned None for a corrupted
\* packet, the next call returns the valid packet sent after it, unless its timeout
\* ran out before it came to that packet, which then is still whole at the port: the
\* corrupted packet costs no byte of the packet that follows it.
C23_RecoversAfterBadPacket ==
    [][(BadPacketRejected /\ Len(lLog) = 1 /\ Len(lLog') = 2) =>
           \/ lLog'[2].result = ReturnedTuple(255, <<1>>)
           \/ lLog'[2].why = "no sync" /\ FollowingUnread']_vars

----------------------------------------------------------------------------
\* Claims about the outcome of the ping test

\* The packet receive_packet finds first in the port: the first the GPU answered with
FirstResponseIs(msg_type) ==
    /\ gResponses # <<>>
    /\ WireMsgType(gResponses[1]) = msg_type

\* The first response carries, in its first four payload bytes, the timestamp sent
FirstResponseEchoes ==
    /\ gResponses # <<>>
    /\ Len(WirePayload(gResponses[1])) >= 4
    /\ UnpackLE(Slice(WirePayload(gResponses[1]), 0, 4)) = gTimestamp

----------------------------------------------------------------------------
\* Short form: send_packet and receive calls on one UartSimulator, one after the
\* other, with a record of every call

MaxSimCalls == 3

SimPayloads == {<<>>, <<170, 85>>, Fill(MAX_PAYLOAD, 255)}

\* One call on the simulator: data is what receive returned
SimCall(op, cmd, payload, drop, ret, data) ==
    [op |-> op, cmd |-> cmd, payload |-> payload, drop |-> drop, ret |-> ret, data |-> data]

SimInit ==
    /\ PipeIdle
    /\ GpuIdle
    /\ ReasmIdle
    /\ PingIdle
    /\ LinkIdle
    /\ ConcIdle
    /\ ShortIdle
    /\ ExtIdle
    /\ RecvIdle
    /\ FragIdle
    /\ \E error_rate \in {"zero", "positive"}, drop_rate \in {"zero", "positive"} :
          uart = UartSimulator(error_rate, drop_rate)
    /\ wConnected = FALSE
    /\ wWritten = <<>>
    /\ uCalls = 0
    /\ uLast = NoCall
    /\ zLog = <<>>

\* uart.send_packet(cmd, payload); the noise loop is not run by a dropped call
SimSend ==
    /\ Len(zLog) < MaxSimCalls
    /\ \E cmd \in SendCmds, payload \in SimPayloads, drop \in DropChoices(uart.drop_rate) :
          \E noise \in (IF drop THEN {<<>>}
                        ELSE NoiseChoices(uart.error_rate, UartPacket_encode(cmd, payload))) :
             LET out == UartSimulator_send_packet(uart, cmd, payload, drop, noise)
             IN  /\ uart' = out.state
                 /\ zLog' = Append(zLog, SimCall("send_packet", cmd, payload, drop, out.ret, <<>>))
    /\ UNCHANGED notSim

\* data = uart.receive()
SimReceive ==
    /\ Len(zLog) < MaxSimCalls
    /\ LET out == UartSimulator_receive(uart)
       IN  /\ uart' = out.state
           /\ zLog' = Append(zLog, SimCall("receive", 0, <<>>, FALSE, "data", out.data))
    /\ UNCHANGED notSim

SimNext == SimSend \/ SimReceive

SpecSim == SimInit /\ [][SimNext]_vars

----------------------------------------------------------------------------
\* Claims about the simulator on a clean channel

\* The calls k with lo <= k <= hi that are send_packet calls
SendsIn(lo, hi) == {k \in lo..hi : zLog[k].op = "send_packet"}

\* The last receive call before call k (0: none)
RECURSIVE ReceiveBefore(_)
ReceiveBefore(k) ==
    IF k <= 1 THEN 0
    ELSE IF zLog[k - 1].op = "receive" THEN k - 1
    ELSE ReceiveBefore(k - 1)

\* The encoded packets of the send_packet calls lo .. hi, in call order
RECURSIVE EncodedIn(_, _)
EncodedIn(lo, hi) ==
    IF lo > hi THEN <<>>
    ELSE (IF zLog[lo].op = "send_packet"
          THEN UartPacket_encode(zLog[lo].cmd, zLog[lo].payload).bytes
          ELSE <<>>) \o EncodedIn(lo + 1, hi)

\* C25: on a simulator with error_rate = 0 and drop_rate = 0, after n send_packet
\* calls packets_sent = n and packets_dropped = 0; every receive returns the
\* encoded packets of the send_packet calls made since the receive before it, in
\* send order and nothing else, which is the empty byte string when there was none.
C25_CleanChannelFifo ==
    (uart.error_rate = "zero" /\ uart.drop_rate = "zero") =>
        /\ uart.packets_sent = Cardinality(SendsIn(1, Len(zLog)))
        /\ uart.packets_dropped = 0
        /\ \A k \in 1..Len(zLog) :
               /\ (zLog[k].op = "send_packet") => (zLog[k].ret = "True")
               /\ (zLog[k].op = "receive") =>
                      (zLog[k].data = EncodedIn(ReceiveBefore(k) + 1, k - 1))

\* C25 witness: on the clean simulator two packets were sent and the receive after
\* them returned the first followed by the second
C25_Witness ==
    /\ uart.error_rate = "zero"
    /\ uart.drop_rate = "zero"
    /\ Len(zLog) = 3
    /\ zLog[1].op = "send_packet"
    /\ zLog[2].op = "send_packet"
    /\ zLog[1].payload # zLog[2].payload
    /\ zLog[3].op = "receive"
    /\ zLog[3].data = UartPacket_encode(zLog[1].cmd, zLog[1].payload).bytes
                          \o UartPacket_encode(zLog[2].cmd, zLog[2].payload).bytes

----------------------------------------------------------------------------
\* Claims about the counters of the simulator

\* Number of bytes of the encoded packets of the send_packet calls lo .. hi that
\* returned True
RECURSIVE SentLengthIn(_, _)
SentLengthIn(lo, hi) ==
    IF lo > hi THEN 0
    ELSE (IF zLog[lo].op = "send_packet" /\ zLog[lo].ret = "True"
          THEN Len(UartPacket_encode(zLog[lo].cmd, zLog[lo].payload).bytes)
          ELSE 0) + SentLengthIn(lo + 1, hi)

\* Number of bytes the receive calls lo .. hi took out of tx_buffer
RECURSIVE ReceivedLengthIn(_, _)
ReceivedLengthIn(lo, hi) ==
    IF lo > hi THEN 0
    ELSE (IF zLog[lo].op = "receive" THEN Len(zLog[lo].data) ELSE 0)
             + ReceivedLengthIn(lo + 1, hi)

\* The call that was just made is a send_packet call
JustSent == Len(zLog') = Len(zLog) + 1 /\ zLog'[Len(zLog')].op = "send_packet"

\* C30: after any sequence of send_packet calls with payloads of at most 255 bytes,
\* whatever the rates: packets_sent + packets_dropped is the number of calls;
\* bytes_sent is the total encoded length of the packets that were not dropped,
\* and the number of bytes appended to tx_buffer (those still in it and those that
\* receive took out); a dropped call returns False and leaves tx_buffer, bytes_sent
\* and packets_sent as they were; a call that is not dropped returns True and
\* appends as many bytes as the encoded packet has, each of them a byte, noise or
\* not.
C30_SimulatorAccounting ==
    /\ [](/\ uart.packets_sent + uart.packets_dropped = Cardinality(SendsIn(1, Len(zLog)))
          /\ uart.packets_dropped
                 = Cardinality({k \in SendsIn(1, Len(zLog)) : zLog[k].drop})
          /\ uart.bytes_sent = SentLengthIn(1, Len(zLog))
          /\ uart.bytes_sent = Len(uart.tx_buffer) + ReceivedLengthIn(1, Len(zLog))
          /\ \A i \in 1..Len(uart.tx_buffer) : uart.tx_buffer[i] \in 0..255)
    /\ [][JustSent =>
             LET call == zLog'[Len(zLog')]
             IN  IF call.drop
                 THEN /\ call.ret = "False"
                      /\ uart'.tx_buffer = uart.tx_buffer
                      /\ uart'.bytes_sent = uart.bytes_sent
                      /\ uart'.packets_sent = uart.packets_sent
                      /\ uart'.packets_dropped = uart.packets_dropped + 1
                 ELSE /\ call.ret = "True"
                      /\ Len(uart'.tx_buffer)
                             = Len(uart.tx_buffer) + Len(call.payload) + 5
                      /\ Slice(uart'.tx_buffer, 0, Len(uart.tx_buffer)) = uart.tx_buffer
                      /\ uart'.packets_sent = uart.packets_sent + 1
                      /\ uart'.packets_dropped = uart.packets_dropped]_vars

\* C30 witness: on a simulator with both rates positive one call was dropped, and
\* the next one went through with a flipped bit
C30_Witness ==
    /\ uart.error_rate = "positive"
    /\ uart.drop_rate = "positive"
    /\ Len(zLog) = 2
    /\ zLog[1].op = "send_packet" /\ zLog[1].drop /\ zLog[1].ret = "False"
    /\ zLog[2].op = "send_packet" /\ ~zLog[2].drop /\ zLog[2].ret = "True"
    /\ uart.packets_sent = 1
    /\ uart.packets_dropped = 1
    /\ uart.tx_buffer # UartPacket_encode(zLog[2].cmd, zLog[2].payload).bytes
    /\ Len(uart.tx_buffer) = Len(UartPacket_encode(zLog[2].cmd, zLog[2].payload).bytes)

----------------------------------------------------------------------------
\* GPU simulator of run_extended_tests.py: FrameBuffer and GpuSimulator

MaxGpuCalls == 3
\* Opcode members that GpuSimulator.execute tests for, and one it does not
OP_NOP == 0
OP_SET_PIXEL == 1
OP_FILL_RECT == 2
OP_DRAW_LINE == 3
OP_CLEAR == 16
OP_FLIP == 17
OP_SET_COLOR == 18
OP_RESET == 255
\* 0xFFFFFF, the current_color set by GpuSimulator.__init__
DEFAULT_COLOR == 16777215

Max(a, b) == IF a > b THEN a ELSE b

\* list[i] of Python: an index in -len .. len-1, counted from the end when negative
ListIndexOk(list, i) == i >= 0 - Len(list) /\ i < Len(list)
ListGetItem(list, i) == IF i >= 0 THEN list[i + 1] ELSE list[Len(list) + i + 1]
ListSetItem(list, i, v) ==
    IF i >= 0 THEN [list EXCEPT ![i + 1] = v] ELSE [list EXCEPT ![Len(list) + i + 1] = v]

\* self.pixels[y][x] = color: IndexError when y or x is no index of its list
PixelStore(self, x, y, color) ==
    IF ~ListIndexOk(self.pixels, y) \/ ~ListIndexOk(ListGetItem(self.pixels, y), x)
    THEN [state |-> self, raised |-> "IndexError"]
    ELSE [state |-> [self EXCEPT !.pixels =
                        ListSetItem(@, y, ListSetItem(ListGetItem(@, y), x, color))],
          raised |-> ""]

\* FrameBuffer.__init__
FrameBuffer_init(width, height) ==
    [width |-> width, height |-> height, pixels |-> Fill(height, Fill(width, 0))]

\* Mutant of FrameBuffer_set_pixel: only the upper limits are tested
Mut_set_pixel_no_lower_test(self, x, y, color) ==
    IF x < self.width /\ y < self.height
    THEN PixelStore(self, x, y, color)
    ELSE [state |-> self, raised |-> ""]

\* FrameBuffer.set_pixel
FrameBuffer_set_pixel(self, x, y, color) ==
    IF 0 <= x /\ x < self.width /\ 0 <= y /\ y < self.height
    THEN PixelStore(self, x, y, color)
    ELSE [state |-> self, raised |-> ""]

\* FrameBuffer.get_pixel
FrameBuffer_get_pixel(self, x, y) ==
    IF 0 <= x /\ x < self.width /\ 0 <= y /\ y < self.height
    THEN ListGetItem(ListGetItem(self.pixels, y), x)
    ELSE 0

\* FrameBuffer.clear
FrameBuffer_clear(self, color) ==
    [self EXCEPT !.pixels = Fill(self.height, Fill(self.width, color))]

\* for px in range(px, stop): self.pixels[py][px] = color
RECURSIVE FillRow(_, _, _, _, _)
FillRow(out, py, px, stop, color) ==
    IF out.raised # "" \/ px >= stop THEN out
    ELSE FillRow(PixelStore(out.state, px, py, color), py, px + 1, stop, color)

\* for py in range(py, stop): for px in range(x0, x1): ...
RECURSIVE FillRows(_, _, _, _, _, _)
FillRows(out, py, stop, x0, x1, color) ==
    IF out.raised # "" \/ py >= stop THEN out
    ELSE FillRows(FillRow(out, py, x0, x1, color), py + 1, stop, x0, x1, color)

\* Mutant of FrameBuffer_fill_rect: the ranges start at y and x, not at max(0, .)
Mut_fill_rect_no_lower_clip(self, x, y, w, h, color) ==
    FillRows([state |-> self, raised |-> ""], y, Min(self.height, y + h),
             x, Min(self.width, x + w), color)

\* FrameBuffer.fill_rect
FrameBuffer_fill_rect(self, x, y, w, h, color) ==
    FillRows([state |-> self, raised |-> ""], Max(0, y), Min(self.height, y + h),
             Max(0, x), Min(self.width, x + w), color)

\* GpuSimulator.__init__
GpuSimulator_init(width, height) ==
    [fb |-> FrameBuffer_init(width, height), current_color |-> DEFAULT_COLOR,
     blend_mode |-> 0, clip_x |-> 0, clip_y |-> 0, clip_w |-> width, clip_h |-> height,
     commands_executed |-> 0]

\* Mutant of GpuSimulator_execute: the counter is incremented where True is returned
Mut_execute_counts_successes(self, cmd, payload) ==
    LET done(s) == [state |-> [s EXCEPT !.commands_executed = @ + 1], ret |-> "True"]
    IN  IF cmd = OP_NOP \/ cmd = OP_FLIP THEN done(self)
        ELSE IF cmd = OP_CLEAR
             THEN done([self EXCEPT !.fb = FrameBuffer_clear(@,
                           IF Len(payload) >= 4 THEN UnpackLE(Slice(payload, 0, 4)) ELSE 0)])
        ELSE IF cmd = OP_SET_PIXEL /\ Len(payload) >= 6
             THEN done([self EXCEPT !.fb = FrameBuffer_set_pixel(@,
                           UnpackLE(Slice(payload, 0, 2)), UnpackLE(Slice(payload, 2, 4)),
                           UnpackLE(Slice(payload, 4, 6))).state])
        ELSE IF cmd = OP_FILL_RECT /\ Len(payload) >= 12
             THEN done([self EXCEPT !.fb = FrameBuffer_fill_rect(@,
                           UnpackLE(Slice(payload, 0, 2)), UnpackLE(Slice(payload, 2, 4)),
                           UnpackLE(Slice(payload, 4, 6)), UnpackLE(Slice(payload, 6, 8)),
                           UnpackLE(Slice(payload, 8, 12))).state])
        ELSE IF cmd = OP_SET_COLOR /\ Len(payload) >= 4
             THEN done([self EXCEPT !.current_color = UnpackLE(Slice(payload, 0, 4))])
        ELSE IF cmd = OP_RESET
             THEN done(GpuSimulator_init(self.fb.width, self.fb.height))
        ELSE [state |-> self, ret |-> "False"]

\* GpuSimulator.execute. The coordinates are unsigned fields, so the FrameBuffer
\* calls made here have no negative argument.
GpuSimulator_execute(self, cmd, payload) ==
    LET counted == [self EXCEPT !.commands_executed = @ + 1]
    IN  IF cmd = OP_NOP THEN [state |-> counted, ret |-> "True"]
        ELSE IF cmd = OP_CLEAR
             THEN LET color == IF Len(payload) >= 4
                               THEN StructUnpack(<<4>>, Slice(payload, 0, 4)).values[1]
                               ELSE 0
                  IN  [state |-> [counted EXCEPT !.fb = FrameBuffer_clear(@, color)],
                       ret |-> "True"]
        ELSE IF cmd = OP_SET_PIXEL
             THEN IF Len(payload) >= 6
                  THEN LET xy == StructUnpack(<<2, 2>>, Slice(payload, 0, 4)).values
                           color == StructUnpack(<<2>>, Slice(payload, 4, 6)).values[1]
                       IN  [state |-> [counted EXCEPT !.fb =
                                FrameBuffer_set_pixel(@, xy[1], xy[2], color).state],
                            ret |-> "True"]
                  ELSE [state |-> counted, ret |-> "False"]
        ELSE IF cmd = OP_FILL_RECT
             THEN IF Len(payload) >= 12
                  THEN LET r == StructUnpack(<<2, 2, 2, 2>>, Slice(payload, 0, 8)).values
                           color == StructUnpack(<<4>>, Slice(payload, 8, 12)).values[1]
                       IN  [state |-> [counted EXCEPT !.fb =
                                FrameBuffer_fill_rect(@, r[1], r[2], r[3], r[4], color).state],
                            ret |-> "True"]
                  ELSE [state |-> counted, ret |-> "False"]
        ELSE IF cmd = OP_SET_COLOR
             THEN IF Len(payload) >= 4
                  THEN [state |-> [counted EXCEPT !.current_color =
                                      StructUnpack(<<4>>, Slice(payload, 0, 4)).values[1]],
                        ret |-> "True"]
                  ELSE [state |-> counted, ret |-> "False"]
        ELSE IF cmd = OP_FLIP THEN [state |-> counted, ret |-> "True"]
        ELSE IF cmd = OP_RESET
             THEN [state |-> GpuSimulator_init(counted.fb.width, counted.fb.height),
                   ret |-> "True"]
        ELSE [state |-> counted, ret |-> "False"]

\* width, height of the simulators that are constructed
FbSizes == {<<3, 2>>}
\* The (cmd, payload) arguments of execute: those of test_gpu_command_sequence with
\* coordinates that fit the small buffer, payloads that are too short, and a command
\* execute has no branch for
GpuCommands ==
    {<<OP_RESET, <<>>>>, <<OP_NOP, <<>>>>, <<OP_FLIP, <<>>>>, <<OP_DRAW_LINE, <<>>>>,
     <<OP_CLEAR, StructPack(<<4>>, <<7>>)>>, <<OP_CLEAR, <<>>>>,
     <<OP_SET_COLOR, StructPack(<<4>>, <<16711680>>)>>, <<OP_SET_COLOR, <<0, 0>>>>,
     <<OP_SET_PIXEL, StructPack(<<2, 2, 2>>, <<1, 1, 65280>>)>>,
     <<OP_SET_PIXEL, StructPack(<<2, 2>>, <<1, 1>>)>>,
     <<OP_FILL_RECT, StructPack(<<2, 2, 2, 2, 4>>, <<1, 0, 5, 1, 255>>)>>,
     <<OP_FILL_RECT, StructPack(<<2, 2, 2, 2>>, <<1, 0, 5, 1>>)>>}
\* The (x, y) arguments of the direct set_pixel calls on a buffer of the given size:
\* the four of test_boundary_pixel_out_of_bounds and two corners
PixelArgs(width, height) ==
    {<<-1, 0>>, <<0, -1>>, <<width, 0>>, <<0, height>>, <<0, 0>>, <<width - 1, height - 1>>}
\* The (x, y, w, h) arguments of the direct fill_rect calls: partly off screen as in
\* test_boundary_rect_clipping, entirely off as in test_boundary_rect_entirely_off,
\* the whole screen, an inner cell, an empty and a negative extent
RectArgs(width, height) ==
    {<<-1, -1, 2, 2>>, <<-3, -3, 2, 2>>, <<width + 1, height + 1, 2, 2>>,
     <<0, 0, width, height>>, <<1, 1, width, height>>, <<1, 0, 1, 1>>,
     <<0, 0, 0, 0>>, <<0, -1, 2, -1>>}

GpuCall(op, cmd, payload, x, y, w, h, color, ret) ==
    [op |-> op, cmd |-> cmd, payload |-> payload, x |-> x, y |-> y, w |-> w, h |-> h,
     color |-> color, ret |-> ret]

GpuInit ==
    /\ PipeIdle
    /\ ShortIdle
    /\ ExtIdle
    /\ RecvIdle
    /\ FragIdle
    /\ SendIdle
    /\ ConcIdle
    /\ LinkIdle
    /\ PingIdle
    /\ ReasmIdle
    /\ SimIdle
    /\ \E size \in FbSizes : gpu = GpuSimulator_init(size[1], size[2])
    /\ xLog = <<>>
    /\ xLast = NoGpuCall

\* gpu.execute(cmd, payload)
GpuExecute ==
    /\ gpu # NoGpu
    /\ Len(xLog) < MaxGpuCalls
    /\ \E c \in GpuCommands :
           LET out == GpuSimulator_execute(gpu, c[1], c[2])
           IN  /\ gpu' = out.state
               /\ xLog' = Append(xLog, [op |-> "execute", cmd |-> c[1]])
               /\ xLast' = GpuCall("execute", c[1], c[2], 0, 0, 0, 0, 0, out.ret)
    /\ UNCHANGED notGpu

\* gpu.fb.set_pixel(x, y, 0xAA)
GpuSetPixel ==
    /\ gpu # NoGpu
    /\ Len(xLog) < MaxGpuCalls
    /\ \E p \in PixelArgs(gpu.fb.width, gpu.fb.height) :
           LET out == FrameBuffer_set_pixel(gpu.fb, p[1], p[2], 170)
           IN  /\ gpu' = [gpu EXCEPT !.fb = out.state]
               /\ xLog' = Append(xLog, [op |-> "set_pixel", cmd |-> 0])
               /\ xLast' = GpuCall("set_pixel", 0, <<>>, p[1], p[2], 0, 0, 170,
                                   IF out.raised = "" THEN "None" ELSE out.raised)
    /\ UNCHANGED notGpu

\* gpu.fb.fill_rect(x, y, w, h, 0xFF)
GpuFillRect ==
    /\ gpu # NoGpu
    /\ Len(xLog) < MaxGpuCalls
    /\ \E r \in RectArgs(gpu.fb.width, gpu.fb.height) :
           LET out == FrameBuffer_fill_rect(gpu.fb, r[1], r[2], r[3], r[4], 255)
           IN  /\ gpu' = [gpu EXCEPT !.fb = out.state]
               /\ xLog' = Append(xLog, [op |-> "fill_rect", cmd |-> 0])
               /\ xLast' = GpuCall("fill_rect", 0, <<>>, r[1], r[2], r[3], r[4], 255,
                                   IF out.raised = "" THEN "None" ELSE out.raised)
    /\ UNCHANGED notGpu

GpuNext == GpuExecute \/ GpuSetPixel \/ GpuFillRect
SpecGpu == GpuInit /\ [][GpuNext]_vars

\* The positions of the execute calls in xLog, and of the RESET commands among them
ExecuteCalls == {k \in 1..Len(xLog) : xLog[k].op = "execute"}
ResetCalls == {k \in ExecuteCalls : xLog[k].cmd = OP_RESET}
\* The execute calls made after the most recent RESET; all of them without a RESET
SinceReset == {k \in ExecuteCalls : \A r \in ResetCalls : r < k}

\* The call that was just made is execute(RESET, ..)
JustReset == xLast'.op = "execute" /\ xLast'.cmd = OP_RESET /\ Len(xLog') = Len(xLog) + 1

\* C26: after any sequence of execute calls, commands_executed is the number of
\* execute calls made after the most recent RESET (all of them if there was none),
\* whether or not they returned True; and a RESET leaves the framebuffer all zero,
\* of the same width and height, and current_color = 0xFFFFFF.
C26_CommandCounter ==
    /\ [](gpu # NoGpu => gpu.commands_executed = Cardinality(SinceReset))
    /\ [][JustReset =>
             /\ gpu'.fb.width = gpu.fb.width
             /\ gpu'.fb.height = gpu.fb.height
             /\ Len(gpu'.fb.pixels) = gpu.fb.height
             /\ \A y \in 0..(gpu.fb.height - 1) :
                    /\ Len(gpu'.fb.pixels[y + 1]) = gpu.fb.width
                    /\ \A x \in 0..(gpu.fb.width - 1) : FrameBuffer_get_pixel(gpu'.fb, x, y) = 0
             /\ gpu'.current_color = DEFAULT_COLOR]_vars

\* C26 witness: a command that returned False, then a RESET of a drawn-on buffer
\* with another colour set, then a command: one command is counted
C26_Witness ==
    /\ gpu # NoGpu
    /\ Len(xLog) = 3
    /\ ExecuteCalls = {1, 2, 3}
    /\ xLog[1].cmd = OP_SET_COLOR
    /\ xLog[2].cmd = OP_RESET
    /\ xLog[3].cmd = OP_DRAW_LINE
    /\ xLast.ret = "False"
    /\ gpu.commands_executed = 1


\* The pixels of a buffer that lie in the rectangle (x, y, w, h)
InRect(px, py, x, y, w, h) == x <= px /\ px < x + w /\ y <= py /\ py < y + h

\* C27: set_pixel with a coordinate outside the buffer changes no pixel; fill_rect
\* sets exactly the pixels inside both the rectangle and the buffer to color and
\* leaves the others as they were; neither raises, and the size of the buffer stays.
C27_WritesClipped ==
    [][(Len(xLog') = Len(xLog) + 1 /\ xLast'.op \in {"set_pixel", "fill_rect"}) =>
          LET c == xLast'
              width == gpu.fb.width
              height == gpu.fb.height
              outside == c.x < 0 \/ c.x >= width \/ c.y < 0 \/ c.y >= height
          IN  /\ c.ret = "None"
              /\ gpu'.fb.width = width /\ gpu'.fb.height = height
              /\ Len(gpu'.fb.pixels) = height
              /\ \A py \in 0..(height - 1) : Len(gpu'.fb.pixels[py + 1]) = width
              /\ (c.op = "set_pixel" /\ outside) => gpu'.fb.pixels = gpu.fb.pixels
              /\ c.op = "fill_rect" =>
                     \A py \in 0..(height - 1) : \A px \in 0..(width - 1) :
                         FrameBuffer_get_pixel(gpu'.fb, px, py)
                             = IF InRect(px, py, c.x, c.y, c.w, c.h) THEN c.color
                               ELSE FrameBuffer_get_pixel(gpu.fb, px, py)]_vars

\* C27 witness: on a buffer that holds set pixels, a rectangle that is partly off
\* screen was filled: the corner it covers has its colour, the far corner has not
C27_Witness ==
    /\ gpu # NoGpu
    /\ Len(xLog) = 2
    /\ xLog[1].op = "set_pixel"
    /\ xLast.op = "fill_rect"
    /\ xLast.x < 0 /\ xLast.y < 0 /\ xLast.x + xLast.w > 0 /\ xLast.y + xLast.h > 0
    /\ FrameBuffer_get_pixel(gpu.fb, 0, 0) = 255
    /\ FrameBuffer_get_pixel(gpu.fb, gpu.fb.width - 1, gpu.fb.height - 1) = 170

\* C27 witness, second case: a set_pixel one past the right edge left the buffer as
\* the fill before it made it
C27_WitnessPixel ==
    /\ gpu # NoGpu
    /\ Len(xLog) = 2
    /\ xLog[1].op = "fill_rect"
    /\ xLast.op = "set_pixel"
    /\ xLast.x = gpu.fb.width
    /\ FrameBuffer_get_pixel(gpu.fb, 0, 0) = 255

----------------------------------------------------------------------------
\* The streaming reader against the buffer decoder: receive_packet of
\* run_hardware_tests.py called on a port where a byte sequence that starts with
\* AA 55 is waiting whole, and UartPacket.decode of the same bytes

MaxAgreeTail == 3
\* Bytes after the length byte: payload bytes, and the checksums that fit some
\* payloads of the command 0x10 with lengths 0, 1 and 2
AgreeBytes == {0, 16, 17, 18}
\* The sequences: the magic alone, the magic and a command, and the magic, a
\* command, a length and the bytes after it
AgreeStreams ==
    {MAGIC, MAGIC \o <<16>>}
        \cup {MAGIC \o <<16, length>> \o tail :
                  length \in 0..2, tail \in SeqsUpTo(AgreeBytes, MaxAgreeTail)}

AgreeInit ==
    /\ PipeIdle
    /\ ShortIdle
    /\ ExtIdle
    /\ RecvIdle
    /\ FragIdle
    /\ SendIdle
    /\ ConcIdle
    /\ PingIdle
    /\ ReasmIdle
    /\ SimIdle
    /\ GpuIdle
    /\ lForm = "short"
    /\ lConnected = TRUE
    /\ lTimeout \in TimeoutSamples
    /\ now = 0
    /\ lStream \in AgreeStreams
    /\ lIn = lStream
    /\ lPending = <<>>
    /\ lpc = "idle"
    /\ lStart = 0
    /\ lDeadline = 0
    /\ lHdr = <<>>
    /\ lPayload = <<>>
    /\ lCalls = 0
    /\ lResult = ReceiveNotRun
    /\ lWhy = "unset"
    /\ lLog = <<>>

AgreeNext ==
    LinkCall \/ LinkLoopTest \/ (\E k \in 1..2 : LinkSeekRead(k)) \/ LinkBlockRead \/ LinkTick
SpecAgree == AgreeInit /\ [][AgreeNext]_vars

\* What receive_packet returns when UartPacket.decode gives the outcome d
AsReturned(d) == IF d.ok THEN ReturnedTuple(d.cmd, d.payload) ELSE ReturnedNone

\* The first call is over, and it entered its search loop
FirstCallRead == Len(lLog) >= 1 /\ lLog[1].why # "no sync"

\* C28: on a byte sequence that starts with AA 55 and is waiting whole at the port,
\* a receive_packet call that enters its search loop returns (cmd, payload) exactly
\* when UartPacket.decode of the same bytes returns, with the same cmd and payload,
\* and None exactly when decode raises. A call that returns for want of the magic
\* has read nothing: its timeout had passed at the first test of the loop.
C28_ReaderAgreesWithDecoder ==
    /\ FirstCallRead => lLog[1].result = AsReturned(UartPacket_decode(lStream))
    /\ (Len(lLog) = 1 /\ lpc = "idle" /\ lLog[1].why = "no sync") => lIn = lStream

\* C28 witness: decode returns a payload of one byte from a sequence with a byte
\* after the checksum, and the call has returned the same
C28_Witness ==
    /\ FirstCallRead
    /\ UartPacket_decode(lStream).ok
    /\ Len(UartPacket_decode(lStream).payload) = 1
    /\ Len(lStream) = 7
    /\ lLog[1].result.kind = "tuple"

\* C28 witness, second case: decode raises on a checksum that does not fit and on
\* a sequence that ends before its checksum; the call has returned None
C28_WitnessNone ==
    /\ FirstCallRead
    /\ UartPacket_decode(lStream).err \in {"CRC mismatch", "Incomplete packet"}
    /\ lLog[1].result = ReturnedNone

----------------------------------------------------------------------------
\* A producer and a consumer on one UartSimulator: the producer is in one
\* send_packet call, which appends byte by byte; the consumer calls receive, whose
\* two statements are data = bytes(self.tx_buffer) and self.tx_buffer.clear(). A
\* step of the model is what one of them does between two points where the other
\* can run.

MaxReceives == 2
\* The thread that sends: the first of the producers
TheProducer == CHOOSE p \in Producers : \A q \in Producers : p <= q

PipeInit ==
    /\ ShortIdle
    /\ ExtIdle
    /\ RecvIdle
    /\ FragIdle
    /\ LinkIdle
    /\ PingIdle
    /\ ReasmIdle
    /\ SimIdle
    /\ GpuIdle
    /\ \E error_rate \in {"zero", "positive"}, drop_rate \in {"zero", "positive"} :
          uart = UartSimulator(error_rate, drop_rate)
    /\ wConnected = FALSE
    /\ wWritten = <<>>
    /\ uCalls = 0
    /\ uLast = NoCall
    /\ \E cmd \in SendCmds, payload \in ConcPayloads :
          prod = [p \in Producers |->
                     IF p = TheProducer
                     THEN [NoProducer EXCEPT !.pc = "called", !.sink = "sim",
                                             !.cmd = cmd, !.payload = payload]
                     ELSE NoProducer]
    /\ cOwners = <<>>
    /\ kpc = "idle"
    /\ kData = <<>>
    /\ kResults = <<>>
    /\ kCalls = 0

\* receive is called: data = bytes(self.tx_buffer)
ConsumerCopy ==
    /\ kpc = "idle"
    /\ kCalls < MaxReceives
    /\ kCalls' = kCalls + 1
    /\ kData' = UartSimulator_receive(uart).data
    /\ kpc' = "copied"
    /\ UNCHANGED <<uart, kResults>>
    /\ UNCHANGED notPipe

\* self.tx_buffer.clear(); return data
ConsumerClear ==
    /\ kpc = "copied"
    /\ uart' = [uart EXCEPT !.tx_buffer = UartSimulator_receive(uart).state.tx_buffer]
    /\ kResults' = Append(kResults, kData)
    /\ kData' = <<>>
    /\ kpc' = "idle"
    /\ UNCHANGED kCalls
    /\ UNCHANGED notPipe

PipeNext ==
    \/ ProducerEncode(TheProducer)
    \/ ProducerDrop(TheProducer)
    \/ ProducerAppend(TheProducer)
    \/ ProducerCountBytes(TheProducer)
    \/ ProducerCountPacket(TheProducer)
    \/ ConsumerCopy
    \/ ConsumerClear

SpecPipe == PipeInit /\ [][PipeNext]_vars

\* The bytes the producer has appended to tx_buffer so far, in order
AppendedBytes ==
    LET p == prod[TheProducer]
    IN  IF p.pc \in {"loop", "count", "done"} /\ p.packet.ok /\ p.ret # "False"
        THEN Slice(Noisy(p.packet.bytes, p.noise), 0, p.i)
        ELSE <<>>

\* b''.join(results)
RECURSIVE JoinResults(_, _)
JoinResults(results, k) ==
    IF k > Len(results) THEN <<>> ELSE results[k] \o JoinResults(results, k + 1)

\* C29: with one thread in send_packet and another calling receive, in every
\* interleaving the receive results, joined in order and followed by what is still
\* in tx_buffer, are the appended bytes in order: no byte is dropped by the clear
\* that follows the copy and none is returned twice.
C29_NoByteLost ==
    kpc = "idle" => JoinResults(kResults, 1) \o uart.tx_buffer = AppendedBytes

====
